---------------------------- MODULE Spec2Model ----------------------------
(***************************************************************************)
(* Model of the k4s terminal client's event loop (package tui, type App):  *)
(* the view state machine, the task/message protocol, the modal overlays   *)
(* and the log-streaming engine (single-source and multi-source).          *)
(*                                                                         *)
(* The loop is App.Update: one message in, (App, commands) out.  Handlers  *)
(* are operators over a "world" record w = [a, s, ctx, cmds, run]:         *)
(*   a    the App struct (the fields the handlers read or write)           *)
(*   s    the stream sessions (one per line channel and producer goroutine)*)
(*   ctx  the cancellation contexts created so far (TRUE = cancelled)      *)
(*   cmds the tea.Cmd batch returned by the handler                        *)
(*   run  "running", "quit" (tea.Quit returned) or "panic"                 *)
(* Commands run in goroutines of their own; their results come back in no  *)
(* particular order, so pending commands and pending results are bags.     *)
(***************************************************************************)
EXTENDS Naturals, Integers, Sequences, FiniteSets, Bags, TLC

\* ---------------------------------------------------------------- bounds
\* capacity of a line channel in the model (the program's is 100)
QueueCap == 2
\* lines one producer emits before it can only end
MaxLines == 2
\* stream sessions (line channels) created in one run
MaxSessions == 3
\* commands and results outstanding at once; fewer while single-source streams
\* are explored
MaxPending == 3
StreamMaxPending == 2
\* key presses in one run: of the multi-pod exploration, of the overlays', of
\* the single-source streams'
MaxKeys == 8
ModalMaxKeys == 5
StreamMaxKeys == 5
\* key presses and pending commands in the exploration of the refresh timers
RefreshMaxKeys == 5
RefreshMaxPending == 4
\* calls and key presses, and pending commands, in the exploration of the
\* confirm dialog
ConfirmMaxKeys == 3
ConfirmMaxPending == 2
\* key presses, pending commands and lines per stream in the exploration of
\* the logs view
LogsMaxKeys == 5
LogsMaxPending == 3
LogsMaxLines == 1
\* starts and pending commands in the exploration of the stop operations
StopMaxStarts == 3
StopMaxPending == 4
\* entries kept and source changes counted in the exploration of the multi-pod
\* viewer
RenderMaxEntries == 4
RenderMaxChanges == 5
\* key presses and pending commands in the exploration of follow mode in the
\* multi-pod logs view
FollowMaxKeys == 5
FollowMaxPending == 3
\* key presses and pending commands in the exploration of failing streams
FailMaxKeys == 4
FailMaxPending == 3
\* key presses and pending commands in the exploration of the fetch results
FetchMaxKeys == 3
FetchMaxPending == 3
\* key presses and pending commands in the exploration of the mutations
MutateMaxKeys == 3
MutateMaxPending == 3
\* kubeconfig entries, key presses and pending commands in the exploration of
\* the connections
MaxConfigs == 2
ConnectMaxKeys == 3
ConnectMaxPending == 3
\* key presses and pending commands in the exploration of the ways back
BackMaxKeys == 4
BackMaxPending == 4

\* --------------------------------------------------------- configuration
\* kubeconfig entries in the configuration (1 auto-connects)
KubeConfigs == 1
\* remote hosts in the configuration
SSHHosts == 1

Pods == {"p1", "p2"}

\* tail requested by the first start of a multi-pod source
MultiPodTail == 100

Views ==
  { "ViewKubeConfigSelect", "ViewConnecting", "ViewNamespaces", "ViewPods",
    "ViewPodDetails", "ViewLogs", "ViewMain", "ViewSSHHosts",
    "ViewSSHConnecting", "ViewCrictlContainers", "ViewCrictlLogs",
    "ViewNodeInfo", "ViewDeployments", "ViewDeploymentDetails",
    "ViewServices", "ViewServiceDetails", "ViewEvents", "ViewMultiPodLogs" }

VARIABLES
  app,      \* the App struct
  sess,     \* stream sessions: channel, producer, ground truth of its end
  ctxs,     \* cancellation contexts: ctxs[i] = TRUE once cancelled
  tasks,    \* commands returned by Update that have not produced a message
  msgs,     \* messages produced by await-next-line commands, not yet handled
  last,     \* the message handled last, the view before it, the batch returned
  keys,     \* key presses so far
  run       \* "running", "quit" (tea.Quit was returned) or "panic"

vars == <<app, sess, ctxs, tasks, msgs, last, keys, run>>

\* ------------------------------------------------------------ vocabulary
\* a command: its kind, the session (line channel) it reads, the pod or target
\* it was created for, the container it was created for
Task(type, s, name, cont) ==
  [type |-> type, sess |-> s, name |-> name, cont |-> cont]
\* a message: err is "nil", "canceled", "passphrase" or "error"; sess says which
\* channel a line or an end came from (the Go message does not carry it, and no
\* handler reads it)
Msg(type, s, name, cont, line, err) ==
  [type |-> type, sess |-> s, name |-> name, cont |-> cont, line |-> line,
   err |-> err, data |-> {}]
KeyMsg(key) == Msg("KeyMsg", 0, key, "", 0, "nil")

RECURSIVE SeqToBag(_)
SeqToBag(q) == IF q = <<>> THEN EmptyBag
               ELSE SetToBag({Head(q)}) (+) SeqToBag(Tail(q))

Emit(w, t) == [w EXCEPT !.cmds = Append(@, t)]
SetA(w, f, v) == [w EXCEPT !.a[f] = v]

\* a command that waits for the next line of session s
WaitTask(kind, s, name, cont) == Task(kind, s, name, cont)

\* --------------------------------------------------------------- streams
NewSession(kind, name, c, tail) ==
  [kind |-> kind, name |-> name, ctx |-> c, tail |-> tail,
   q |-> <<>>, n |-> 0, done |-> FALSE, cause |-> "none"]

CancelCtx(w, c) == [w EXCEPT !.ctx[c] = TRUE]
NewCtx(w) == [w EXCEPT !.ctx = Append(@, FALSE)]
OpenSession(w, kind, name, c, tail) ==
  [w EXCEPT !.s = Append(@, NewSession(kind, name, c, tail))]

\* stopLogStream
stopLogStream(w) ==
  LET w1 == IF w.a.logStreamCancel # 0
            THEN SetA(CancelCtx(w, w.a.logStreamCancel), "logStreamCancel", 0)
            ELSE w
  IN SetA(w1, "logStreamActive", FALSE)

\* the tail a (re)started single-source stream asks for
StreamTailLines == 0

\* a start that asks for the tail again, as the first fetch of a view does
startLogStreamingWithTail(w) ==
  IF ~w.a.k8sClient THEN w
  ELSE LET w1 == NewCtx(stopLogStream(w))
           c  == Len(w1.ctx)
           w2 == OpenSession(w1, "pod", w1.a.logViewer.podName, c, MultiPodTail)
           id == Len(w2.s)
           w3 == [w2 EXCEPT !.a.logStreamCancel = c,
                            !.a.logStreamActive = TRUE,
                            !.a.logLineChan = id]
       IN Emit(w3, WaitTask("waitForLogLine", id, "", ""))

\* a start that leaves the running stream alone
startLogStreamingNoStop(w) ==
  IF ~w.a.k8sClient THEN w
  ELSE LET w1 == NewCtx(w)
           c  == Len(w1.ctx)
           w2 == OpenSession(w1, "pod", w1.a.logViewer.podName, c, StreamTailLines)
           id == Len(w2.s)
           w3 == [w2 EXCEPT !.a.logStreamCancel = c,
                            !.a.logStreamActive = TRUE,
                            !.a.logLineChan = id]
       IN Emit(w3, WaitTask("waitForLogLine", id, "", ""))

\* startLogStreaming
startLogStreaming(w) ==
  IF ~w.a.k8sClient THEN w
  ELSE LET w1 == NewCtx(stopLogStream(w))
           c  == Len(w1.ctx)
           w2 == OpenSession(w1, "pod", w1.a.logViewer.podName, c, StreamTailLines)
           id == Len(w2.s)
           w3 == [w2 EXCEPT !.a.logStreamCancel = c,
                            !.a.logStreamActive = TRUE,
                            !.a.logLineChan = id]
       IN Emit(w3, WaitTask("waitForLogLine", id, "", ""))

\* stopCrictlLogStream
stopCrictlLogStream(w) ==
  LET w1 == IF w.a.crictlLogStreamCancel # 0
            THEN SetA(CancelCtx(w, w.a.crictlLogStreamCancel),
                      "crictlLogStreamCancel", 0)
            ELSE w
  IN SetA(w1, "crictlLogStreamActive", FALSE)

\* startCrictlLogStreaming
startCrictlLogStreaming(w) ==
  IF ~w.a.sshClient \/ ~w.a.selectedCrictlContainer THEN w
  ELSE LET w1 == NewCtx(stopCrictlLogStream(w))
           c  == Len(w1.ctx)
           w2 == OpenSession(w1, "crictl", "", c, StreamTailLines)
           id == Len(w2.s)
           w3 == [w2 EXCEPT !.a.crictlLogStreamCancel = c,
                            !.a.crictlLogStreamActive = TRUE,
                            !.a.crictlLogLineChan = id]
       IN Emit(w3, WaitTask("waitForCrictlLogLine", id, "", ""))

\* ------------------------------------------------------- multi-pod streams
PodOrder == <<"p1", "p2">>
InOrder(S) == SelectSeq(PodOrder, LAMBDA p : p \in S)
NoChans == [p \in Pods |-> 0]
NoContainers == [p \in Pods |-> ""]

\* a stop that releases one source per call
stopMultiPodStreamsOneByOne(w) ==
  LET w1 == IF w.a.multiPodStreamCancel # 0
            THEN SetA(CancelCtx(w, w.a.multiPodStreamCancel),
                      "multiPodStreamCancel", 0)
            ELSE w
      left == IF w.a.multiPodActiveStreams > 0
              THEN w.a.multiPodActiveStreams - 1 ELSE 0
  IN [w1 EXCEPT !.a.multiPodStreamCtx = 0,
                !.a.multiPodStreamActive = (left > 0),
                !.a.multiPodActiveStreams = left,
                !.a.multiPodLineChanMap = NoChans,
                !.a.multiPodContainerMap = NoContainers]

\* stopMultiPodStreams
stopMultiPodStreams(w) ==
  LET w1 == IF w.a.multiPodStreamCancel # 0
            THEN SetA(CancelCtx(w, w.a.multiPodStreamCancel),
                      "multiPodStreamCancel", 0)
            ELSE w
  IN [w1 EXCEPT !.a.multiPodStreamCtx = 0,
                !.a.multiPodStreamActive = FALSE,
                !.a.multiPodActiveStreams = 0,
                !.a.multiPodLineChanMap = NoChans,
                !.a.multiPodContainerMap = NoContainers]

\* a start of one source that asks for the history every time
startSinglePodStreamWithHistory(w, c, podName, container, withHistory) ==
  LET w1 == OpenSession(w, "multi", podName, c, MultiPodTail)
      id == Len(w1.s)
      w2 == [w1 EXCEPT !.a.multiPodLineChanMap[podName] = id]
  IN Emit(w2, WaitTask("waitForMultiPodLogLine", id, podName, container))

\* startSinglePodStream
startSinglePodStream(w, c, podName, container, withHistory) ==
  LET tailLines == IF withHistory THEN MultiPodTail ELSE 0
      w1 == OpenSession(w, "multi", podName, c, tailLines)
      id == Len(w1.s)
      w2 == [w1 EXCEPT !.a.multiPodLineChanMap[podName] = id]
  IN Emit(w2, WaitTask("waitForMultiPodLogLine", id, podName, container))

RECURSIVE startEach(_, _, _)
startEach(w, c, names) ==
  IF names = <<>> THEN w
  ELSE LET p == Head(names)
           container == IF p \in w.a.podItems THEN "main" ELSE ""
           w1 == [w EXCEPT !.a.multiPodContainerMap[p] = container]
       IN startEach(startSinglePodStream(w1, c, p, container, TRUE), c,
                    Tail(names))

\* MultiPodLogViewer.SetPods
SetPods(v, podNames) ==
  [v EXCEPT !.pods = podNames, !.entries = <<>>, !.following = TRUE]

\* startMultiPodStreaming
startMultiPodStreaming(w, podNames) ==
  IF ~w.a.k8sClient THEN w
  ELSE LET w1 == NewCtx(stopMultiPodStreams(w))
           c  == Len(w1.ctx)
           w2 == [w1 EXCEPT !.a.multiPodLogViewer = SetPods(@, podNames),
                            !.a.viewState = "ViewMultiPodLogs",
                            !.a.multiPodStreamCancel = c,
                            !.a.multiPodStreamCtx = c,
                            !.a.multiPodStreamActive = TRUE,
                            !.a.multiPodActiveStreams = Cardinality(podNames),
                            !.a.multiPodLineChanMap = NoChans,
                            !.a.multiPodContainerMap = NoContainers]
       IN startEach(w2, c, InOrder(podNames))

\* MultiPodLogViewer.AppendEntry: an empty line (0 here) is not kept
AppendEntry(v, entry) ==
  IF entry.line = 0 THEN v ELSE [v EXCEPT !.entries = Append(@, entry)]

\* MultiPodLogViewer.updateContent, "source := e.PodName + "/" + e.Container":
\* names hold no slash, so the pair stands for the string
Source(e) == <<e.pod, e.cont>>

\* a rendering with one header per source, at the source's first entry
RECURSIVE RenderOncePerSource(_, _, _)
RenderOncePerSource(entries, i, seen) ==
  IF i > Len(entries) THEN <<>>
  ELSE LET src == Source(entries[i])
           head == IF src \notin seen
                   THEN (IF seen # {} THEN <<[kind |-> "blank"]>> ELSE <<>>)
                        \o <<[kind |-> "header", source |-> src]>>
                   ELSE <<>>
       IN head \o <<[kind |-> "line", text |-> entries[i].line]>>
               \o RenderOncePerSource(entries, i + 1, seen \cup {src})
updateContentOncePerSource(v) ==
  IF v.entries = <<>> THEN <<[kind |-> "waiting"]>>
  ELSE RenderOncePerSource(v.entries, 1, {})

\* MultiPodLogViewer.updateContent, the loop over the entries: the lines of the
\* content.  A header whenever the source differs from the previous entry's,
\* an empty line before every header but the first
RECURSIVE Render(_, _, _)
Render(entries, i, lastSource) ==
  IF i > Len(entries) THEN <<>>
  ELSE LET src == Source(entries[i])
           head == IF src # lastSource
                   THEN (IF lastSource # <<>> THEN <<[kind |-> "blank"]>> ELSE <<>>)
                        \o <<[kind |-> "header", source |-> src]>>
                   ELSE <<>>
       IN head \o <<[kind |-> "line", text |-> entries[i].line]>>
               \o Render(entries, i + 1, src)

\* MultiPodLogViewer.updateContent, the viewer ready
updateContent(v) ==
  IF v.entries = <<>> THEN <<[kind |-> "waiting"]>>
  ELSE Render(v.entries, 1, <<>>)

\* handleMultiPodLogLine
handleMultiPodLogLine(w, m) ==
  IF w.a.viewState # "ViewMultiPodLogs" THEN w
  ELSE LET w1 == [w EXCEPT !.a.multiPodLogViewer =
                     AppendEntry(@, [pod |-> m.name, cont |-> m.cont,
                                     sess |-> m.sess, line |-> m.line])]
           ch == w1.a.multiPodLineChanMap[m.name]
       IN IF ch # 0
          THEN Emit(w1, WaitTask("waitForMultiPodLogLine", ch, m.name, m.cont))
          ELSE w1

\* handleMultiPodLogStreamEnded
handleMultiPodLogStreamEnded(w, m) ==
  LET w1 == [w EXCEPT !.a.multiPodLineChanMap[m.name] = 0]
  IN IF m.err = "canceled"
     THEN [w1 EXCEPT !.a.multiPodActiveStreams = @ - 1]
     ELSE IF /\ w1.a.viewState = "ViewMultiPodLogs"
             /\ w1.a.multiPodStreamActive
             /\ w1.a.multiPodStreamCtx # 0
          THEN startSinglePodStream(w1, w1.a.multiPodStreamCtx, m.name,
                                    w1.a.multiPodContainerMap[m.name], FALSE)
          ELSE LET n == w1.a.multiPodActiveStreams - 1
               IN [w1 EXCEPT !.a.multiPodActiveStreams = n,
                             !.a.multiPodStreamActive =
                                IF n <= 0 THEN FALSE ELSE @]

\* ------------------------------------------------------------ log viewers
\* LogViewer and CrictlLogViewer (AppendLog, SetLogs, SetPod, Clear, the toggles)
NewLogViewer ==
  [podName |-> "", containers |-> 0, container |-> "", following |-> FALSE,
   timestamps |-> FALSE, lines |-> <<>>]

\* LogViewer.AppendLog
AppendLog(v, m) ==
  [v EXCEPT !.lines = Append(@, [sess |-> m.sess, line |-> m.line])]
\* LogViewer.SetLogs: the fetched tail replaces the content
SetLogs(v) == [v EXCEPT !.lines = <<>>]
\* LogViewer.SetPod: a new pod, its containers, the first one selected
SetPod(v, podName, n) ==
  [v EXCEPT !.podName = podName, !.containers = n, !.container = "main",
            !.lines = <<>>, !.following = FALSE]
\* LogViewer.Clear
ClearLogs(v) == [v EXCEPT !.lines = <<>>]
\* LogViewer.ToggleFollowing
ToggleFollowing(v) == [v EXCEPT !.following = ~@]
\* LogViewer.ToggleTimestamps
ToggleTimestamps(v) == [v EXCEPT !.timestamps = ~@]

\* Notification.Show: the notification and the command that expires it
Notify(w, kind) ==
  Emit([w EXCEPT !.a.notification = [visible |-> TRUE, kind |-> kind]],
       Task("notificationExpired", 0, "", ""))

\* ------------------------------------------------- single-source handlers
\* handleLogLine
handleLogLine(w, m) ==
  IF w.a.viewState # "ViewLogs" THEN w
  ELSE LET w1 == [w EXCEPT !.a.logViewer = AppendLog(@, m)]
       IN IF w1.a.logStreamActive /\ w1.a.logLineChan # 0
          THEN Emit(w1, WaitTask("waitForLogLine", w1.a.logLineChan, "", ""))
          ELSE w1

\* handleLogStreamEnded
handleLogStreamEnded(w, m) ==
  LET w1 == SetA(w, "logStreamActive", FALSE)
  IN IF m.err = "canceled" THEN w1
     ELSE IF w1.a.logViewer.following /\ w1.a.viewState = "ViewLogs"
          THEN startLogStreaming(w1)
          ELSE IF m.err # "nil" THEN Notify(w1, "info") ELSE w1

\* handleCrictlLogLine
handleCrictlLogLine(w, m) ==
  IF w.a.viewState # "ViewCrictlLogs" THEN w
  ELSE LET w1 == [w EXCEPT !.a.crictlLogViewer = AppendLog(@, m)]
       IN IF w1.a.crictlLogStreamActive /\ w1.a.crictlLogLineChan # 0
          THEN Emit(w1, WaitTask("waitForCrictlLogLine",
                                 w1.a.crictlLogLineChan, "", ""))
          ELSE w1

\* handleCrictlLogStreamEnded
handleCrictlLogStreamEnded(w, m) ==
  LET w1 == SetA(w, "crictlLogStreamActive", FALSE)
  IN IF m.err = "canceled" THEN w1
     ELSE IF w1.a.crictlLogViewer.following /\ w1.a.viewState = "ViewCrictlLogs"
          THEN startCrictlLogStreaming(w1)
          ELSE IF m.err # "nil" THEN Notify(w1, "info") ELSE w1

\* ------------------------------------------------------ fetch commands
fetchPods == Task("fetchPods", 0, "", "")
schedulePodRefresh == Task("podRefreshTick", 0, "", "")
fetchEvents == Task("fetchEvents", 0, "", "")
scheduleEventRefresh == Task("eventRefreshTick", 0, "", "")
fetchNamespaces == Task("fetchNamespaces", 0, "", "")
fetchPodDetails(p) == Task("fetchPodDetails", 0, p, "")
fetchContainers(p) == Task("fetchContainers", 0, p, "")
fetchLogs(p, c) == Task("fetchLogs", 0, p, c)
fetchDeployments == Task("fetchDeployments", 0, "", "")
fetchDeploymentDetails(d) == Task("fetchDeploymentDetails", 0, d, "")
fetchServices == Task("fetchServices", 0, "", "")
fetchServiceDetails(s) == Task("fetchServiceDetails", 0, s, "")
deletePod(p) == Task("deletePod", 0, p, "")
restartPod(p) == Task("restartPod", 0, p, "")
deleteDeployment(d) == Task("deleteDeployment", 0, d, "")
restartDeployment(d) == Task("restartDeployment", 0, d, "")
scaleDeployment(d) == Task("scaleDeployment", 0, d, "")
connectToCluster == Task("connectToCluster", 0, "", "")
retrySSHConnection == Task("retrySSHConnection", 0, "", "")
fetchCrictlContainers == Task("fetchCrictlContainers", 0, "", "")
fetchNodeInfo == Task("fetchNodeInfo", 0, "", "")
fetchCrictlLogs == Task("fetchCrictlLogs", 0, "", "")
\* the command a huh form returns when a key completes its last field
formCmd == Task("formMsg", 0, "", "")

Emit2(w, t1, t2) == Emit(Emit(w, t1), t2)

\* ------------------------------------------------------- result handlers
\* a nil client is dereferenced: the program panics and the loop is gone
Panic(w) == [w EXCEPT !.run = "panic"]

\* Update, case tea.WindowSizeMsg: the lists are rebuilt, the lists of fetched
\* items empty
handleWindowSize(w) ==
  [w EXCEPT !.a.ready = TRUE, !.a.nsItems = FALSE, !.a.podItems = {},
            !.a.podFilter = "Unfiltered", !.a.crictlItems = FALSE,
            !.a.deployItems = FALSE, !.a.serviceItems = FALSE]

\* a connect result handler that connects again by itself after a failure
handleConnectResultRetry(w, m) ==
  IF m.err # "nil"
  THEN Emit([w EXCEPT !.a.err = TRUE, !.a.connectionStatus = "StatusError",
                      !.a.viewState = "ViewMain"], connectToCluster)
  ELSE Emit([w EXCEPT !.a.k8sClient = TRUE,
                      !.a.connectionStatus = "StatusConnected",
                      !.a.viewState = "ViewNamespaces",
                      !.a.err = FALSE, !.a.loading = TRUE],
            fetchNamespaces)

\* handleConnectResult
handleConnectResult(w, m) ==
  IF m.err # "nil"
  THEN [w EXCEPT !.a.err = TRUE, !.a.connectionStatus = "StatusError",
                 !.a.viewState = "ViewMain"]
  ELSE Emit([w EXCEPT !.a.k8sClient = TRUE,
                      !.a.connectionStatus = "StatusConnected",
                      !.a.viewState = "ViewNamespaces",
                      !.a.err = FALSE, !.a.loading = TRUE],
            fetchNamespaces)

\* a result handler that leaves for the main view on an error, as the connect
\* result does
LoadedOrMain(w, m, ok) ==
  IF m.err # "nil"
  THEN [w EXCEPT !.a.loading = FALSE, !.a.err = TRUE, !.a.viewState = "ViewMain"]
  ELSE [ok EXCEPT !.a.loading = FALSE, !.a.err = FALSE]

\* the shape shared by the list and detail result handlers: loading is cleared,
\* an error is recorded, a result is stored
Loaded(w, m, ok) ==
  IF m.err # "nil" THEN [w EXCEPT !.a.loading = FALSE, !.a.err = TRUE]
  ELSE [ok EXCEPT !.a.loading = FALSE, !.a.err = FALSE]

\* handleNamespacesResult
handleNamespacesResult(w, m) == Loaded(w, m, SetA(w, "nsItems", TRUE))

\* handlePodsResult
handlePodsResult(w, m) ==
  Loaded(w, m, [w EXCEPT !.a.pods = m.data,
                         !.a.podItems = IF w.a.podFilter = "Unfiltered"
                                        THEN m.data ELSE @])

\* handlePodDetailsResult
handlePodDetailsResult(w, m) == Loaded(w, m, w)
\* handleDeploymentsResult
handleDeploymentsResult(w, m) == Loaded(w, m, SetA(w, "deployItems", TRUE))
\* handleDeploymentDetailsResult
handleDeploymentDetailsResult(w, m) ==
  Loaded(w, m, SetA(w, "deploymentDetails", TRUE))
\* handleServicesResult
handleServicesResult(w, m) == Loaded(w, m, SetA(w, "serviceItems", TRUE))
\* handleServiceDetailsResult
handleServiceDetailsResult(w, m) == Loaded(w, m, w)
\* handleEventsResult
handleEventsResult(w, m) == Loaded(w, m, w)
\* handleLogsResult
handleLogsResult(w, m) == Loaded(w, m, [w EXCEPT !.a.logViewer = SetLogs(@)])
\* handleCrictlLogsResult
handleCrictlLogsResult(w, m) ==
  Loaded(w, m, [w EXCEPT !.a.crictlLogViewer = SetLogs(@)])
\* handleSSHCrictlContainers
handleSSHCrictlContainers(w, m) == Loaded(w, m, SetA(w, "crictlItems", TRUE))
\* handleSSHNodeInfo
handleSSHNodeInfo(w, m) == w

\* the modals the pod-refresh tick looks at before it fetches
PodTickBlockingModal(a) == a.confirmDialog.visible

\* a tick that re-arms whatever the view is
podRefreshTickAlwaysRearm(w) ==
  IF /\ w.a.viewState = "ViewPods" /\ w.a.k8sClient
     /\ ~PodTickBlockingModal(w.a) /\ w.a.podFilter = "Unfiltered"
  THEN Emit2(w, fetchPods, schedulePodRefresh)
  ELSE Emit(w, schedulePodRefresh)

\* a tick that ends its chain when it skips the fetch
podRefreshTickSkipEndsChain(w) ==
  IF /\ w.a.viewState = "ViewPods" /\ w.a.k8sClient
     /\ ~PodTickBlockingModal(w.a) /\ w.a.podFilter = "Unfiltered"
  THEN Emit2(w, fetchPods, schedulePodRefresh)
  ELSE w

\* Update, case podRefreshTickMsg
podRefreshTick(w) ==
  IF /\ w.a.viewState = "ViewPods" /\ w.a.k8sClient
     /\ ~PodTickBlockingModal(w.a) /\ w.a.podFilter = "Unfiltered"
  THEN Emit2(w, fetchPods, schedulePodRefresh)
  ELSE IF w.a.viewState = "ViewPods" /\ w.a.k8sClient
       THEN Emit(w, schedulePodRefresh)
       ELSE w

\* a tick that fetches once and schedules no successor
eventRefreshTickOnce(w) ==
  IF w.a.viewState = "ViewEvents" /\ w.a.k8sClient /\ w.a.eventViewer.following
  THEN Emit(w, fetchEvents)
  ELSE w

\* Update, case eventRefreshTickMsg
eventRefreshTick(w) ==
  IF w.a.viewState = "ViewEvents" /\ w.a.k8sClient /\ w.a.eventViewer.following
  THEN Emit2(w, fetchEvents, scheduleEventRefresh)
  ELSE IF w.a.viewState = "ViewEvents" /\ w.a.k8sClient
       THEN Emit(w, scheduleEventRefresh)
       ELSE w

\* a pod result handler that issues the mutation again when it failed
handlePodDeleteResultRetry(w, m) ==
  IF m.err # "nil" THEN Emit(Notify(w, "error"), deletePod(m.name))
  ELSE Emit2([Notify(w, "success") EXCEPT !.a.viewState = "ViewPods",
                                          !.a.selectedPodName = ""],
             fetchPods, schedulePodRefresh)

\* handlePodDeleteResult and handlePodRestartResult
handlePodDeleteResult(w, m) ==
  IF m.err # "nil" THEN Notify(w, "error")
  ELSE Emit2([Notify(w, "success") EXCEPT !.a.viewState = "ViewPods",
                                          !.a.selectedPodName = ""],
             fetchPods, schedulePodRefresh)

\* handleDeploymentScaleResult
handleDeploymentScaleResult(w, m) ==
  IF m.err # "nil" THEN Notify(w, "error")
  ELSE Emit(Notify(w, "success"), fetchDeployments)

\* handleDeploymentRestartResult and handleDeploymentDeleteResult
handleDeploymentDeleteResult(w, m) ==
  IF m.err # "nil" THEN Notify(w, "error")
  ELSE Emit([Notify(w, "success") EXCEPT !.a.viewState = "ViewDeployments",
                                         !.a.selectedDeployName = ""],
            fetchDeployments)

\* a containers result handler that leaves the loading flag set on an error
handleContainersResultKeepsLoading(w, m) ==
  IF m.err # "nil" THEN [w EXCEPT !.a.err = TRUE]
  ELSE IF ~w.a.k8sClient THEN Panic(SetA(w, "loading", FALSE))
  ELSE Emit([w EXCEPT !.a.loading = FALSE,
                      !.a.logViewer = SetPod(@, w.a.selectedPodName, m.line),
                      !.a.viewState = "ViewLogs"],
            fetchLogs(w.a.selectedPodName, "main"))

\* handleContainersResult
handleContainersResult(w, m) ==
  IF m.err # "nil" THEN [w EXCEPT !.a.loading = FALSE, !.a.err = TRUE]
  ELSE IF ~w.a.k8sClient THEN Panic(SetA(w, "loading", FALSE))
  ELSE Emit([w EXCEPT !.a.loading = FALSE,
                      !.a.logViewer = SetPod(@, w.a.selectedPodName, m.line),
                      !.a.viewState = "ViewLogs"],
            fetchLogs(w.a.selectedPodName, "main"))

\* PassphraseInput.Show (the command it returns initialises the form: its
\* message changes nothing modelled here)
ShowPassphrase(w) == SetA(w, "passphraseInput", [visible |-> TRUE])

\* handleSSHConnectResult
handleSSHConnectResult(w, m) ==
  LET w1 == SetA(w, "loading", FALSE)
  IN IF m.err = "passphrase"
     THEN SetA(ShowPassphrase(w1), "viewState", "ViewSSHConnecting")
     ELSE IF m.err # "nil"
          THEN [w1 EXCEPT !.a.err = TRUE, !.a.viewState = "ViewSSHHosts"]
          ELSE Emit2([w1 EXCEPT !.a.viewState = "ViewCrictlContainers",
                                !.a.err = FALSE, !.a.loading = TRUE],
                     fetchCrictlContainers, fetchNodeInfo)

\* ------------------------------------------------------------------ modals
AllPodsValue == "__all_pods__"
NoConfirm ==
  [visible |-> FALSE, action |-> "ConfirmActionNone", targetName |-> "",
   confirmed |-> FALSE]
NoScale == [visible |-> FALSE, deployName |-> ""]
NoSelector == [visible |-> FALSE, selected |-> {}, allPods |-> {}]

\* what a dialog's Update returns: confirmed, cancelled, the form's command
Outcome(confirmed, cancelled, cmd) ==
  [confirmed |-> confirmed, cancelled |-> cancelled, cmd |-> cmd]
Pending == Outcome(FALSE, FALSE, <<>>)
IsKey(m, ks) == m.type = "KeyMsg" /\ m.name \in ks

\* the huh form under a dialog: enter on its last field returns the command
\* whose message completes the form on a later Update
FormUpdate(m, done) ==
  IF m.type = "formMsg" THEN done
  ELSE IF IsKey(m, {"enter"}) THEN Outcome(FALSE, FALSE, <<formCmd>>)
  ELSE Pending

\* a Show that builds the form and leaves the dialog hidden
ShowConfirmHidden(w, action, targetName) ==
  SetA(w, "confirmDialog",
       [visible |-> FALSE, action |-> action, targetName |-> targetName,
        confirmed |-> FALSE])

\* ConfirmDialog.Show
ShowConfirm(w, action, targetName) ==
  SetA(w, "confirmDialog",
       [visible |-> TRUE, action |-> action, targetName |-> targetName,
        confirmed |-> FALSE])

\* ConfirmDialog.Update
ConfirmDialogUpdate(d, m) ==
  IF ~d.visible THEN Pending
  ELSE IF IsKey(m, {"y", "Y"}) THEN Outcome(TRUE, FALSE, <<>>)
  ELSE IF IsKey(m, {"n", "N", "esc"}) THEN Outcome(FALSE, TRUE, <<>>)
  ELSE FormUpdate(m, Outcome(d.confirmed, ~d.confirmed, <<>>))

\* ScaleDialog.Update, ContainerSelector.Update, PodMultiSelector.Update,
\* PassphraseInput.Update: esc (and c in the container selector) cancels
DialogUpdate(visible, m, cancelKeys) ==
  IF ~visible THEN Pending
  ELSE IF IsKey(m, cancelKeys) THEN Outcome(FALSE, TRUE, <<>>)
  ELSE FormUpdate(m, Outcome(TRUE, FALSE, <<>>))

\* PodMultiSelector.SelectedPods
SelectedPods(s) ==
  IF AllPodsValue \in s.selected THEN s.allPods ELSE s.selected

EmitAll(w, cmd) == [w EXCEPT !.cmds = @ \o cmd]

\* a follow-up that knows the pod actions only
FollowUpPods(action, targetName) ==
  CASE action = "ConfirmActionDeletePod" -> <<deletePod(targetName)>>
    [] action = "ConfirmActionRestartPod" -> <<restartPod(targetName)>>
    [] OTHER -> <<>>

\* handleKeyMsg and Update, "switch action" after the dialog confirmed
FollowUp(action, targetName) ==
  CASE action = "ConfirmActionDeletePod" -> <<deletePod(targetName)>>
    [] action = "ConfirmActionRestartPod" -> <<restartPod(targetName)>>
    [] action = "ConfirmActionDeleteDeployment" -> <<deleteDeployment(targetName)>>
    [] action = "ConfirmActionRestartDeployment" -> <<restartDeployment(targetName)>>
    [] OTHER -> <<>>

\* Update and handleKeyMsg, the confirm dialog visible
routeConfirmDialog(w, m) ==
  LET d == w.a.confirmDialog
      o == ConfirmDialogUpdate(d, m)
      \* the form's keys move its Yes/No choice
      w0 == IF IsKey(m, {"left", "right"})
            THEN [w EXCEPT !.a.confirmDialog.confirmed = ~@] ELSE w
  IN IF o.confirmed
     THEN IF d.action = "ConfirmActionNone"
          THEN EmitAll(SetA(w0, "confirmDialog", NoConfirm), o.cmd)
          ELSE EmitAll(SetA(w0, "confirmDialog", NoConfirm),
                       FollowUp(d.action, d.targetName))
     ELSE IF o.cancelled
          THEN EmitAll(SetA(w0, "confirmDialog", NoConfirm), o.cmd)
          ELSE EmitAll(w0, o.cmd)

\* Update and handleKeyMsg, the scale dialog visible
routeScaleDialog(w, m) ==
  LET d == w.a.scaleDialog
      o == DialogUpdate(d.visible, m, {"esc"})
  IN IF o.confirmed
     THEN Emit(SetA(w, "scaleDialog", NoScale), scaleDeployment(d.deployName))
     ELSE IF o.cancelled THEN EmitAll(SetA(w, "scaleDialog", NoScale), o.cmd)
          ELSE EmitAll(w, o.cmd)

\* Update and handleKeyMsg, the container selector visible
routeContainerSelector(w, m) ==
  LET o == DialogUpdate(w.a.containerSelector.visible, m, {"esc", "c"})
  IN IF o.confirmed
     THEN LET w1 == [w EXCEPT !.a.containerSelector.visible = FALSE,
                              !.a.logViewer.container =
                                 w.a.containerSelector.selected]
              w2 == SetA(stopLogStream(w1), "loading", TRUE)
          IN Emit(w2, fetchLogs(w2.a.logViewer.podName,
                                w2.a.logViewer.container))
     ELSE IF o.cancelled
          THEN EmitAll([w EXCEPT !.a.containerSelector.visible = FALSE], o.cmd)
          ELSE EmitAll(
                 IF IsKey(m, {"j", "k"})
                 THEN [w EXCEPT !.a.containerSelector.selected =
                          IF @ = "main" THEN "side" ELSE "main"]
                 ELSE w, o.cmd)

\* Update and handleKeyMsg, the pod multi-selector visible; sel is the option
\* under the form's cursor
routePodMultiSelector(w, m, sel) ==
  LET d == w.a.podMultiSelector
      o == DialogUpdate(d.visible, m, {"esc"})
      hidden == [w EXCEPT !.a.podMultiSelector.visible = FALSE]
  IN IF o.confirmed
     THEN IF SelectedPods(d) # {}
          THEN startMultiPodStreaming(hidden, SelectedPods(d))
          ELSE EmitAll(hidden, o.cmd)
     ELSE IF o.cancelled THEN EmitAll(hidden, o.cmd)
          ELSE EmitAll(
                 IF IsKey(m, {"space"}) /\ sel \in d.allPods \cup {AllPodsValue}
                 THEN [w EXCEPT !.a.podMultiSelector.selected =
                          IF sel \in @ THEN @ \ {sel} ELSE @ \cup {sel}]
                 ELSE w, o.cmd)

\* Update and handleKeyMsg, the passphrase input visible
routePassphraseInput(w, m) ==
  LET o == DialogUpdate(w.a.passphraseInput.visible, m, {"esc"})
      hidden == SetA(w, "passphraseInput", [visible |-> FALSE])
  IN IF o.confirmed
     THEN IF w.a.sshClient /\ w.a.selectedSSHHost
          THEN Emit(SetA(hidden, "loading", TRUE), retrySSHConnection)
          ELSE EmitAll(hidden, o.cmd)
     ELSE IF o.cancelled
          THEN EmitAll(SetA(hidden, "viewState", "ViewSSHHosts"), o.cmd)
          ELSE EmitAll(w, o.cmd)

\* --------------------------------------------------------------- key presses
Quit(w) == [w EXCEPT !.run = "quit"]

\* closeSSHConnection
closeSSHConnection(w) ==
  [w EXCEPT !.a.sshClient = FALSE, !.a.selectedSSHHost = FALSE]

\* connectToSSHHost
connectToSSHHost(w) ==
  Emit([closeSSHConnection(w) EXCEPT !.a.sshClient = TRUE,
                                     !.a.selectedSSHHost = TRUE],
       retrySSHConnection)

\* handleKeyMsg, "Pass key to child components": the list or viewer of the
\* current view gets the key
keyChild(w, key) ==
  CASE w.a.viewState = "ViewPods" /\ key = "/" ->
         SetA(w, "podFilter", "Filtering")
    [] w.a.viewState = "ViewMultiPodLogs"
         /\ key \in {"up", "down", "pgup", "pgdown", "k", "j", "g"} ->
         [w EXCEPT !.a.multiPodLogViewer.following = FALSE]
    [] w.a.viewState = "ViewMultiPodLogs" /\ key = "G" ->
         [w EXCEPT !.a.multiPodLogViewer.following = TRUE]
    [] OTHER -> w

\* handleKeyMsg, the pod list's filter being edited: the list gets every key
keyPodFilter(w, key) ==
  CASE key = "esc" -> SetA(w, "podFilter", "Unfiltered")
    [] key = "enter" -> SetA(w, "podFilter", "FilterApplied")
    [] OTHER -> w

\* handleKeyMsg, the search input visible (SearchInput.Update: enter submits,
\* esc cancels)
keySearchInput(w, key) ==
  IF key \in {"enter", "esc"} THEN SetA(w, "searchInput", [visible |-> FALSE])
  ELSE w

\* a way back to the pods view that arms no timer
ToPodsUnarmed(w) == Emit(SetA(w, "viewState", "ViewPods"), fetchPods)

\* handleKeyMsg, case "esc": back to the pods view, fetch and timer
ToPods(w) == Emit2(SetA(w, "viewState", "ViewPods"), fetchPods, schedulePodRefresh)

\* handleKeyMsg, case "enter"
keyEnter(w, key, sel) ==
  LET v == w.a.viewState
  IN CASE v = "ViewKubeConfigSelect" /\ w.a.ready ->
            Emit([w EXCEPT !.a.selectedConfig = TRUE,
                           !.a.viewState = "ViewConnecting",
                           !.a.connectionStatus = "StatusConnecting",
                           !.a.err = FALSE], connectToCluster)
       [] v = "ViewNamespaces" /\ w.a.nsItems ->
            IF ~w.a.k8sClient THEN Panic(w)
            ELSE Emit2([w EXCEPT !.a.viewState = "ViewPods",
                                 !.a.loading = TRUE],
                       fetchPods, schedulePodRefresh)
       [] v = "ViewPods" /\ sel \in w.a.podItems ->
            Emit([w EXCEPT !.a.selectedPodName = sel,
                           !.a.viewState = "ViewPodDetails",
                           !.a.loading = TRUE], fetchPodDetails(sel))
       [] v = "ViewSSHHosts" /\ w.a.ready /\ SSHHosts > 0 ->
            connectToSSHHost([w EXCEPT !.a.viewState = "ViewSSHConnecting",
                                       !.a.loading = TRUE, !.a.err = FALSE])
       [] v = "ViewCrictlContainers" /\ w.a.crictlItems ->
            Emit([w EXCEPT !.a.selectedCrictlContainer = TRUE,
                           !.a.crictlLogViewer = SetPod(@, "", 1),
                           !.a.viewState = "ViewCrictlLogs",
                           !.a.loading = TRUE], fetchCrictlLogs)
       [] v = "ViewDeployments" /\ w.a.deployItems ->
            Emit([w EXCEPT !.a.selectedDeployName = "dep",
                           !.a.viewState = "ViewDeploymentDetails",
                           !.a.loading = TRUE], fetchDeploymentDetails("dep"))
       [] v = "ViewServices" /\ w.a.serviceItems ->
            Emit([w EXCEPT !.a.selectedServiceName = "svc",
                           !.a.viewState = "ViewServiceDetails",
                           !.a.loading = TRUE], fetchServiceDetails("svc"))
       [] OTHER -> keyChild(w, key)

\* handleKeyMsg, case "r"
keyRefresh(w, key) ==
  LET v == w.a.viewState
      load(t) == Emit(SetA(w, "loading", TRUE), t)
  IN CASE v = "ViewNamespaces" /\ w.a.k8sClient -> load(fetchNamespaces)
       [] v = "ViewPods" /\ w.a.k8sClient -> load(fetchPods)
       [] v = "ViewPodDetails" /\ w.a.k8sClient /\ w.a.selectedPodName # "" ->
            load(fetchPodDetails(w.a.selectedPodName))
       [] v = "ViewLogs" /\ w.a.k8sClient ->
            Emit(SetA(stopLogStream(w), "loading", TRUE),
                 fetchLogs(w.a.logViewer.podName, w.a.logViewer.container))
       [] v = "ViewMain" /\ w.a.selectedConfig
            /\ w.a.connectionStatus # "StatusConnected" ->
            Emit([w EXCEPT !.a.viewState = "ViewConnecting",
                           !.a.connectionStatus = "StatusConnecting",
                           !.a.err = FALSE], connectToCluster)
       [] v = "ViewCrictlContainers" /\ w.a.sshClient ->
            load(fetchCrictlContainers)
       [] v = "ViewCrictlLogs" /\ w.a.sshClient /\ w.a.selectedCrictlContainer ->
            Emit(SetA(stopCrictlLogStream(w), "loading", TRUE), fetchCrictlLogs)
       [] v = "ViewDeployments" /\ w.a.k8sClient -> load(fetchDeployments)
       [] v = "ViewDeploymentDetails" /\ w.a.k8sClient
            /\ w.a.selectedDeployName # "" ->
            load(fetchDeploymentDetails(w.a.selectedDeployName))
       [] v = "ViewServices" /\ w.a.k8sClient -> load(fetchServices)
       [] v = "ViewServiceDetails" /\ w.a.k8sClient
            /\ w.a.selectedServiceName # "" ->
            load(fetchServiceDetails(w.a.selectedServiceName))
       [] v = "ViewEvents" /\ w.a.k8sClient ->
            Emit2(SetA(w, "loading", TRUE), fetchEvents, scheduleEventRefresh)
       [] OTHER -> keyChild(w, key)

\* handleKeyMsg, case "f"
keyFollow(w, key) ==
  LET v == w.a.viewState
  IN CASE v = "ViewLogs" ->
            LET w1 == [w EXCEPT !.a.logViewer = ToggleFollowing(@)]
            IN IF w1.a.logViewer.following THEN startLogStreaming(w1)
               ELSE stopLogStream(w1)
       [] v = "ViewCrictlLogs" ->
            LET w1 == [w EXCEPT !.a.crictlLogViewer = ToggleFollowing(@)]
            IN IF w1.a.crictlLogViewer.following
               THEN startCrictlLogStreaming(w1)
               ELSE stopCrictlLogStream(w1)
       [] v = "ViewEvents" -> [w EXCEPT !.a.eventViewer.following = ~@]
       [] v = "ViewMultiPodLogs" ->
            [w EXCEPT !.a.multiPodLogViewer.following = ~@]
       [] OTHER -> keyChild(w, key)

\* handleKeyMsg, case "t"
keyTimestamps(w, key) ==
  LET v == w.a.viewState
  IN CASE v = "ViewLogs" ->
            LET w1 == stopLogStream(
                        [w EXCEPT !.a.logViewer = ToggleTimestamps(@)])
            IN Emit(SetA(w1, "loading", TRUE),
                    fetchLogs(w1.a.logViewer.podName, w1.a.logViewer.container))
       [] v = "ViewCrictlLogs" /\ w.a.selectedCrictlContainer ->
            LET w1 == stopCrictlLogStream(
                        [w EXCEPT !.a.crictlLogViewer = ToggleTimestamps(@)])
            IN Emit(SetA(w1, "loading", TRUE), fetchCrictlLogs)
       [] OTHER -> keyChild(w, key)

\* handleKeyMsg, case "q"
keyQuit(w, key) ==
  IF w.a.viewState \in
       {"ViewMain", "ViewNamespaces", "ViewPods", "ViewPodDetails", "ViewLogs",
        "ViewMultiPodLogs", "ViewSSHHosts", "ViewCrictlContainers",
        "ViewCrictlLogs", "ViewNodeInfo"}
  THEN Quit(closeSSHConnection(
              stopCrictlLogStream(stopMultiPodStreams(stopLogStream(w)))))
  ELSE IF w.a.viewState = "ViewKubeConfigSelect" THEN Quit(w)
  ELSE keyChild(w, key)

\* handleKeyMsg, case "l"
keyLogs(w, key, sel) ==
  IF w.a.viewState = "ViewPodDetails" /\ w.a.selectedPodName # ""
  THEN Emit([w EXCEPT !.a.logSourceView = "ViewPodDetails",
                      !.a.loading = TRUE],
            fetchContainers(w.a.selectedPodName))
  ELSE IF w.a.viewState = "ViewPods" /\ sel \in w.a.podItems
  THEN Emit([w EXCEPT !.a.selectedPodName = sel,
                      !.a.logSourceView = "ViewPods",
                      !.a.loading = TRUE], fetchContainers(sel))
  ELSE keyChild(w, key)

\* handleKeyMsg, case "L"; PodMultiSelector.Show
keyMultiLogs(w, key) ==
  IF w.a.viewState = "ViewPods" /\ w.a.k8sClient /\ w.a.podItems # {}
  THEN SetA(w, "podMultiSelector",
            [visible |-> TRUE, selected |-> {}, allPods |-> w.a.podItems])
  ELSE keyChild(w, key)

\* handleKeyMsg, cases "d" and "R"
keyConfirm(w, key, sel, action) ==
  IF w.a.viewState = "ViewPodDetails" /\ w.a.selectedPodName # ""
  THEN ShowConfirm(w, action, w.a.selectedPodName)
  ELSE IF w.a.viewState = "ViewPods" /\ sel \in w.a.podItems
  THEN ShowConfirm(w, action, sel)
  ELSE keyChild(w, key)

\* handleKeyMsg, case "s"; ScaleDialog.Show
keyScale(w, key) ==
  IF \/ w.a.viewState = "ViewDeployments" /\ w.a.deployItems
     \/ w.a.viewState = "ViewDeploymentDetails" /\ w.a.deploymentDetails
  THEN SetA(w, "scaleDialog", [visible |-> TRUE, deployName |-> "dep"])
  ELSE keyChild(w, key)

\* digits that jump whatever the connection status
keyDigitUnchecked(w, key) ==
  LET go(v, cmds) ==
        IF w.a.viewState # v
        THEN EmitAll([w EXCEPT !.a.viewState = v, !.a.loading = TRUE], cmds)
        ELSE keyChild(w, key)
  IN CASE key = "1" -> go("ViewNamespaces", <<fetchNamespaces>>)
       [] key = "2" -> go("ViewPods", <<fetchPods, schedulePodRefresh>>)
       [] key = "3" -> go("ViewDeployments", <<fetchDeployments>>)
       [] key = "4" -> go("ViewServices", <<fetchServices>>)
       [] key = "5" -> go("ViewEvents", <<fetchEvents, scheduleEventRefresh>>)
       [] key = "9" -> [w EXCEPT !.a.viewState = "ViewSSHHosts", !.a.err = FALSE]

\* handleKeyMsg, cases "1" to "5" and "9"
keyDigit(w, key) ==
  LET connected == w.a.connectionStatus = "StatusConnected"
      go(v, cmds) ==
        IF connected /\ w.a.viewState # v
        THEN EmitAll([w EXCEPT !.a.viewState = v, !.a.loading = TRUE], cmds)
        ELSE keyChild(w, key)
  IN CASE key = "1" -> go("ViewNamespaces", <<fetchNamespaces>>)
       [] key = "2" -> go("ViewPods", <<fetchPods, schedulePodRefresh>>)
       [] key = "3" -> go("ViewDeployments", <<fetchDeployments>>)
       [] key = "4" -> go("ViewServices", <<fetchServices>>)
       [] key = "5" -> go("ViewEvents", <<fetchEvents, scheduleEventRefresh>>)
       [] key = "9" ->
            IF SSHHosts > 0
            THEN [w EXCEPT !.a.viewState = "ViewSSHHosts", !.a.err = FALSE]
            ELSE keyChild(w, key)

\* an esc that always leaves the logs view for the pods view
keyEscToPods(w, key) ==
  IF w.a.viewState = "ViewLogs"
  THEN ToPods(SetA([stopLogStream(w) EXCEPT !.a.logViewer = ClearLogs(@)],
                   "selectedPodName", ""))
  ELSE ToPods(w)

\* an esc that goes back to the pods view from every view
keyEscFlat(w, key) == ToPods(w)

\* handleKeyMsg, case "esc"
keyEsc(w, key) ==
  LET v == w.a.viewState
      connected == w.a.connectionStatus = "StatusConnected"
      toSelect == [w EXCEPT !.a.viewState = "ViewKubeConfigSelect",
                            !.a.k8sClient = FALSE,
                            !.a.connectionStatus = "StatusDisconnected"]
  IN CASE v = "ViewMain" ->
            IF connected THEN ToPods(w)
            ELSE IF w.a.kubeConfigs > 1 THEN toSelect ELSE keyChild(w, key)
       [] v = "ViewLogs" ->
            LET w1 == [stopLogStream(w) EXCEPT !.a.logViewer = ClearLogs(@)]
            IN IF w1.a.logSourceView = "ViewPods"
               THEN ToPods(SetA(w1, "selectedPodName", ""))
               ELSE Emit([w1 EXCEPT !.a.viewState = "ViewPodDetails",
                                    !.a.loading = TRUE],
                         fetchPodDetails(w1.a.selectedPodName))
       [] v = "ViewMultiPodLogs" ->
            ToPods([stopMultiPodStreams(w) EXCEPT
                      !.a.multiPodLogViewer.entries = <<>>,
                      !.a.multiPodLogViewer.pods = {}])
       [] v = "ViewPodDetails" -> ToPods(SetA(w, "selectedPodName", ""))
       [] v = "ViewPods" ->
            Emit(SetA(w, "viewState", "ViewNamespaces"), fetchNamespaces)
       [] v = "ViewNamespaces" ->
            IF w.a.kubeConfigs > 1 THEN toSelect ELSE keyChild(w, key)
       [] v = "ViewSSHHosts" ->
            IF connected THEN ToPods(w)
            ELSE Emit(SetA(w, "viewState", "ViewNamespaces"), fetchNamespaces)
       [] v \in {"ViewCrictlContainers", "ViewNodeInfo"} ->
            SetA(closeSSHConnection(w), "viewState", "ViewSSHHosts")
       [] v = "ViewCrictlLogs" ->
            [stopCrictlLogStream(w) EXCEPT
               !.a.crictlLogViewer = ClearLogs(@),
               !.a.selectedCrictlContainer = FALSE,
               !.a.viewState = "ViewCrictlContainers"]
       [] v \in {"ViewDeployments", "ViewServices", "ViewEvents"} -> ToPods(w)
       [] v = "ViewDeploymentDetails" ->
            Emit([w EXCEPT !.a.viewState = "ViewDeployments",
                           !.a.selectedDeployName = ""], fetchDeployments)
       [] v = "ViewServiceDetails" ->
            Emit([w EXCEPT !.a.viewState = "ViewServices",
                           !.a.selectedServiceName = ""], fetchServices)
       [] OTHER -> keyChild(w, key)

\* handleKeyMsg, the switch on the key
keySwitch(w, key, sel) ==
  CASE key = "ctrl+c" -> Quit(w)
    [] key = "?" ->
         IF w.a.viewState \notin {"ViewConnecting", "ViewSSHConnecting"}
         THEN [w EXCEPT !.a.helpScreen.visible = ~@]
         ELSE keyChild(w, key)
    [] key = "q" -> keyQuit(w, key)
    [] key = "enter" -> keyEnter(w, key, sel)
    [] key = "r" -> keyRefresh(w, key)
    [] key = "l" -> keyLogs(w, key, sel)
    [] key = "L" -> keyMultiLogs(w, key)
    [] key = "d" -> keyConfirm(w, key, sel, "ConfirmActionDeletePod")
    [] key = "R" -> keyConfirm(w, key, sel, "ConfirmActionRestartPod")
    [] key = "f" -> keyFollow(w, key)
    [] key = "t" -> keyTimestamps(w, key)
    [] key = "c" ->
         IF w.a.viewState = "ViewLogs" /\ w.a.logViewer.containers > 1
         THEN SetA(w, "containerSelector",
                   [visible |-> TRUE, selected |-> w.a.logViewer.container])
         ELSE keyChild(w, key)
    [] key = "/" ->
         IF w.a.viewState \in {"ViewLogs", "ViewCrictlLogs"}
         THEN SetA(w, "searchInput", [visible |-> TRUE])
         ELSE keyChild(w, key)
    [] key = "s" -> keyScale(w, key)
    [] key \in {"1", "2", "3", "4", "5", "9"} -> keyDigit(w, key)
    [] key = "esc" -> keyEsc(w, key)
    [] OTHER -> keyChild(w, key)

\* a key routing that asks the passphrase input before the help screen
handleKeyMsgPassphraseFirst(w, m, sel) ==
  LET key == m.name
  IN IF w.a.viewState = "ViewConnecting"
     THEN IF key = "ctrl+c" THEN Quit(w) ELSE w
     ELSE IF w.a.confirmDialog.visible THEN routeConfirmDialog(w, m)
     ELSE IF w.a.scaleDialog.visible THEN routeScaleDialog(w, m)
     ELSE IF w.a.passphraseInput.visible THEN routePassphraseInput(w, m)
     ELSE IF w.a.helpScreen.visible
          THEN IF key \in {"?", "esc"}
               THEN [w EXCEPT !.a.helpScreen.visible = FALSE] ELSE w
     ELSE IF w.a.containerSelector.visible THEN routeContainerSelector(w, m)
     ELSE IF w.a.podMultiSelector.visible THEN routePodMultiSelector(w, m, sel)
     ELSE IF w.a.searchInput.visible THEN keySearchInput(w, key)
     ELSE IF w.a.viewState = "ViewPods" /\ w.a.podFilter = "Filtering"
          THEN keyPodFilter(w, key)
     ELSE keySwitch(w, key, sel)

\* handleKeyMsg
handleKeyMsg(w, m, sel) ==
  LET key == m.name
  IN IF w.a.viewState = "ViewConnecting"
     THEN IF key = "ctrl+c" THEN Quit(w) ELSE w
     ELSE IF w.a.confirmDialog.visible THEN routeConfirmDialog(w, m)
     ELSE IF w.a.scaleDialog.visible THEN routeScaleDialog(w, m)
     ELSE IF w.a.helpScreen.visible
          THEN IF key \in {"?", "esc"}
               THEN [w EXCEPT !.a.helpScreen.visible = FALSE] ELSE w
     ELSE IF w.a.containerSelector.visible THEN routeContainerSelector(w, m)
     ELSE IF w.a.podMultiSelector.visible THEN routePodMultiSelector(w, m, sel)
     ELSE IF w.a.passphraseInput.visible THEN routePassphraseInput(w, m)
     ELSE IF w.a.searchInput.visible THEN keySearchInput(w, key)
     ELSE IF w.a.viewState = "ViewPods" /\ w.a.podFilter = "Filtering"
          THEN keyPodFilter(w, key)
     ELSE keySwitch(w, key, sel)


\* ------------------------------------------------------------------ Update
\* Update, "Route non-key messages to visible dialogs": the message of a form's
\* own command reaches the first visible dialog in this order
routeFormMsg(w, m) ==
  IF w.a.confirmDialog.visible THEN routeConfirmDialog(w, m)
  ELSE IF w.a.scaleDialog.visible THEN routeScaleDialog(w, m)
  ELSE IF w.a.containerSelector.visible THEN routeContainerSelector(w, m)
  ELSE IF w.a.podMultiSelector.visible THEN routePodMultiSelector(w, m, "")
  ELSE IF w.a.passphraseInput.visible THEN routePassphraseInput(w, m)
  ELSE w

\* Update: the type switch comes first, the dialogs after it
Update(w, m, sel) ==
  CASE m.type = "KeyMsg" -> handleKeyMsg(w, m, sel)
    [] m.type = "WindowSizeMsg" -> handleWindowSize(w)
    [] m.type = "connectResultMsg" -> handleConnectResult(w, m)
    [] m.type = "namespacesResultMsg" -> handleNamespacesResult(w, m)
    [] m.type = "podsResultMsg" -> handlePodsResult(w, m)
    [] m.type = "podDetailsResultMsg" -> handlePodDetailsResult(w, m)
    [] m.type = "podRefreshTickMsg" -> podRefreshTick(w)
    [] m.type = "eventRefreshTickMsg" -> eventRefreshTick(w)
    [] m.type \in {"podDeleteResultMsg", "podRestartResultMsg"} ->
         handlePodDeleteResult(w, m)
    [] m.type = "notificationExpiredMsg" ->
         [w EXCEPT !.a.notification.visible = FALSE]
    [] m.type = "containersResultMsg" -> handleContainersResult(w, m)
    [] m.type = "logsResultMsg" -> handleLogsResult(w, m)
    [] m.type = "logLineMsg" -> handleLogLine(w, m)
    [] m.type = "logStreamEndedMsg" -> handleLogStreamEnded(w, m)
    [] m.type = "multiPodLogLineMsg" -> handleMultiPodLogLine(w, m)
    [] m.type = "multiPodLogStreamEndedMsg" -> handleMultiPodLogStreamEnded(w, m)
    [] m.type = "sshConnectResultMsg" -> handleSSHConnectResult(w, m)
    [] m.type = "sshCrictlContainersMsg" -> handleSSHCrictlContainers(w, m)
    [] m.type = "sshNodeInfoMsg" -> handleSSHNodeInfo(w, m)
    [] m.type = "sshCrictlLogsMsg" -> handleCrictlLogsResult(w, m)
    [] m.type = "sshCrictlLogLineMsg" -> handleCrictlLogLine(w, m)
    [] m.type = "sshCrictlLogStreamEndedMsg" -> handleCrictlLogStreamEnded(w, m)
    [] m.type = "deploymentsResultMsg" -> handleDeploymentsResult(w, m)
    [] m.type = "deploymentDetailsResultMsg" ->
         handleDeploymentDetailsResult(w, m)
    [] m.type = "deploymentScaleResultMsg" -> handleDeploymentScaleResult(w, m)
    [] m.type \in {"deploymentRestartResultMsg", "deploymentDeleteResultMsg"} ->
         handleDeploymentDeleteResult(w, m)
    [] m.type = "servicesResultMsg" -> handleServicesResult(w, m)
    [] m.type = "serviceDetailsResultMsg" -> handleServiceDetailsResult(w, m)
    [] m.type = "eventsResultMsg" -> handleEventsResult(w, m)
    [] OTHER -> routeFormMsg(w, m)

\* ---------------------------------------------------------------- commands
WaitKinds ==
  {"waitForLogLine", "waitForCrictlLogLine", "waitForMultiPodLogLine"}

\* commands that return an error without a call when the cluster client is nil
K8sCommands ==
  { "fetchNamespaces", "fetchPods", "fetchPodDetails", "fetchContainers",
    "fetchLogs", "fetchDeployments", "fetchDeploymentDetails", "fetchServices",
    "fetchServiceDetails", "fetchEvents", "deletePod", "restartPod",
    "deleteDeployment", "restartDeployment", "scaleDeployment" }
\* commands that return an error without a call when the SSH client is nil
SSHCommands ==
  {"retrySSHConnection", "fetchCrictlContainers", "fetchNodeInfo",
   "fetchCrictlLogs"}

\* the type of the message a command produces
MsgType(kind) ==
  CASE kind = "windowSize" -> "WindowSizeMsg"
    [] kind = "connectToCluster" -> "connectResultMsg"
    [] kind = "fetchNamespaces" -> "namespacesResultMsg"
    [] kind = "fetchPods" -> "podsResultMsg"
    [] kind = "fetchPodDetails" -> "podDetailsResultMsg"
    [] kind = "fetchContainers" -> "containersResultMsg"
    [] kind = "fetchLogs" -> "logsResultMsg"
    [] kind = "fetchDeployments" -> "deploymentsResultMsg"
    [] kind = "fetchDeploymentDetails" -> "deploymentDetailsResultMsg"
    [] kind = "fetchServices" -> "servicesResultMsg"
    [] kind = "fetchServiceDetails" -> "serviceDetailsResultMsg"
    [] kind = "fetchEvents" -> "eventsResultMsg"
    [] kind = "deletePod" -> "podDeleteResultMsg"
    [] kind = "restartPod" -> "podRestartResultMsg"
    [] kind = "deleteDeployment" -> "deploymentDeleteResultMsg"
    [] kind = "restartDeployment" -> "deploymentRestartResultMsg"
    [] kind = "scaleDeployment" -> "deploymentScaleResultMsg"
    [] kind = "retrySSHConnection" -> "sshConnectResultMsg"
    [] kind = "fetchCrictlContainers" -> "sshCrictlContainersMsg"
    [] kind = "fetchNodeInfo" -> "sshNodeInfoMsg"
    [] kind = "fetchCrictlLogs" -> "sshCrictlLogsMsg"
    [] kind = "podRefreshTick" -> "podRefreshTickMsg"
    [] kind = "eventRefreshTick" -> "eventRefreshTickMsg"
    [] kind = "notificationExpired" -> "notificationExpiredMsg"
    [] kind = "waitForLogLine" -> "logLineMsg"
    [] kind = "waitForCrictlLogLine" -> "sshCrictlLogLineMsg"
    [] kind = "waitForMultiPodLogLine" -> "multiPodLogLineMsg"
    [] OTHER -> kind

\* the type of the message a waiting command produces on a closed channel
EndedType(kind) ==
  CASE kind = "waitForLogLine" -> "logStreamEndedMsg"
    [] kind = "waitForCrictlLogLine" -> "sshCrictlLogStreamEndedMsg"
    [] kind = "waitForMultiPodLogLine" -> "multiPodLogStreamEndedMsg"

\* what the commands of one exploration can return: the errors, the pod lists,
\* the container counts
Returns(errs, lists, counts) ==
  [errs |-> errs, lists |-> lists, counts |-> counts]

\* the errors a command can report, given the App it runs against
ResultErrs(t, a) ==
  CASE t.type \in K8sCommands ->
         IF a.k8sClient THEN {"nil", "error"} ELSE {"error"}
    [] t.type = "retrySSHConnection" ->
         IF a.sshClient THEN {"nil", "passphrase", "error"} ELSE {"error"}
    [] t.type = "fetchCrictlLogs" ->
         IF a.sshClient /\ a.selectedCrictlContainer
         THEN {"nil", "error"} ELSE {"error"}
    [] t.type \in SSHCommands ->
         IF a.sshClient THEN {"nil", "error"} ELSE {"error"}
    [] t.type = "connectToCluster" -> {"nil", "error"}
    [] OTHER -> {"nil"}

\* the messages a command can produce
Results(t, a, ret) ==
  LET errs == ResultErrs(t, a) \cap (ret.errs \cup {"nil"})
      some == IF errs = {} THEN ResultErrs(t, a) ELSE errs
  IN { [Msg(MsgType(t.type), 0, t.name, t.cont, n, "nil") EXCEPT !.data = d] :
         n \in IF t.type = "fetchContainers" THEN ret.counts ELSE {0},
         d \in IF "nil" \notin some THEN {}
               ELSE IF t.type = "fetchPods" THEN ret.lists ELSE {{}} }
     \cup { Msg(MsgType(t.type), 0, t.name, t.cont, 0, e) : e \in some \ {"nil"} }

\* --------------------------------------------------------------- the state
NewAppOf(n) ==
  [ kubeConfigs |-> n,
    viewState |-> IF n = 1 THEN "ViewConnecting"
                  ELSE "ViewKubeConfigSelect",
    selectedConfig |-> (n = 1),
    k8sClient |-> FALSE,
    connectionStatus |-> IF n = 1 THEN "StatusConnecting"
                         ELSE "StatusDisconnected",
    err |-> FALSE, loading |-> FALSE, ready |-> FALSE,
    nsItems |-> FALSE, podItems |-> {}, podFilter |-> "Unfiltered",
    pods |-> {}, selectedPodName |-> "",
    deployItems |-> FALSE, serviceItems |-> FALSE,
    deploymentDetails |-> FALSE, selectedDeployName |-> "",
    selectedServiceName |-> "", crictlItems |-> FALSE,
    confirmDialog |-> NoConfirm, scaleDialog |-> NoScale,
    helpScreen |-> [visible |-> FALSE],
    containerSelector |-> [visible |-> FALSE, selected |-> "main"],
    podMultiSelector |-> NoSelector,
    passphraseInput |-> [visible |-> FALSE],
    searchInput |-> [visible |-> FALSE],
    notification |-> [visible |-> FALSE, kind |-> "none"],
    logViewer |-> NewLogViewer, logSourceView |-> "ViewKubeConfigSelect",
    logStreamCancel |-> 0, logStreamActive |-> FALSE, logLineChan |-> 0,
    sshClient |-> FALSE, selectedSSHHost |-> FALSE,
    selectedCrictlContainer |-> FALSE, crictlLogViewer |-> NewLogViewer,
    crictlLogStreamCancel |-> 0, crictlLogStreamActive |-> FALSE,
    crictlLogLineChan |-> 0,
    eventViewer |-> [following |-> TRUE],
    multiPodLogViewer |-> [pods |-> {}, entries |-> <<>>, following |-> TRUE],
    multiPodStreamCancel |-> 0, multiPodStreamCtx |-> 0,
    multiPodStreamActive |-> FALSE, multiPodActiveStreams |-> 0,
    multiPodLineChanMap |-> NoChans, multiPodContainerMap |-> NoContainers ]

NewApp == NewAppOf(KubeConfigs)

\* the modals that are visible
VisibleModals(a) ==
  {n \in {"confirmDialog", "scaleDialog", "helpScreen", "containerSelector",
          "podMultiSelector", "passphraseInput", "searchInput"} :
     a[n].visible}

\* what the handled message found: the view, the visible modals, the follow
\* modes, the sessions created so far
Pre(a, s) ==
  [viewState |-> a.viewState, modals |-> VisibleModals(a),
   following |-> a.logViewer.following,
   crictlFollowing |-> a.crictlLogViewer.following,
   selectedPodName |-> a.selectedPodName, nsess |-> Len(s)]

NoMsg == Msg("none", 0, "", "", 0, "nil")

\* NewApp, then Init: the runtime reports the window size, Init's command
\* connects when a single kubeconfig was selected
InitOf(n) ==
  /\ app = NewAppOf(n)
  /\ sess = <<>>
  /\ ctxs = <<>>
  /\ tasks = SetToBag({Task("windowSize", 0, "", "")}
                      \cup IF n = 1 THEN {connectToCluster} ELSE {})
  /\ msgs = EmptyBag
  /\ last = [msg |-> NoMsg, pre |-> Pre(NewAppOf(n), <<>>), cmds |-> <<>>]
  /\ keys = 0
  /\ run = "running"
Init == InitOf(KubeConfigs)

World == [a |-> app, s |-> sess, ctx |-> ctxs, cmds |-> <<>>, run |-> run]
One(x) == SetToBag({x})

\* one pass of the loop: Update(m), its result stored, its commands started
Handle(m, sel, tasks1, msgs1, lim) ==
  LET w == Update(World, m, sel)
  IN /\ Len(w.s) <= MaxSessions
     /\ BagCardinality(tasks1 (+) SeqToBag(w.cmds)) + BagCardinality(msgs1)
          <= lim.pending
     /\ app' = w.a
     /\ sess' = w.s
     /\ ctxs' = w.ctx
     /\ run' = w.run
     /\ tasks' = tasks1 (+) SeqToBag(w.cmds)
     /\ msgs' = msgs1
     /\ last' = [msg |-> m, pre |-> Pre(app, sess), cmds |-> w.cmds]

\* a key that changes nothing and returns no command leaves the loop where it was
Effect(w) == w.cmds # <<>> \/ w.a # app \/ w.ctx # ctxs \/ w.run # run \/ w.s # sess

\* the user presses a key; sel is the item under the cursor.  The first frame
\* is drawn once the window size is known (View shows nothing before)
KeyPress(Keys, Sels, lim) ==
  /\ run = "running"
  /\ app.ready
  /\ keys < lim.keys
  /\ \E key \in Keys, sel \in Sels :
       /\ Effect(Update(World, KeyMsg(key), sel))
       /\ Handle(KeyMsg(key), sel, tasks, msgs, lim)
  /\ keys' = keys + 1

\* a command other than a channel read finishes and the loop handles its message
Deliver(ret, lim) ==
  /\ run = "running"
  /\ \E t \in BagToSet(tasks) :
       /\ t.type \notin WaitKinds
       /\ \E m \in Results(t, app, ret) : Handle(m, "", tasks (-) One(t), msgs, lim)
  /\ UNCHANGED keys

\* waitForLogLine, waitForCrictlLogLine, waitForMultiPodLogLine: the command
\* receives the next line of its channel, or finds it closed and drained
Receive ==
  /\ run = "running"
  /\ \E t \in BagToSet(tasks) :
       /\ t.type \in WaitKinds
       /\ LET c == sess[t.sess]
          IN \/ /\ c.q # <<>>
                /\ sess' = [sess EXCEPT ![t.sess].q = Tail(@)]
                /\ msgs' = msgs (+) One(Msg(MsgType(t.type), t.sess, t.name,
                                            t.cont, Head(c.q), "nil"))
             \/ /\ c.q = <<>> /\ c.done
                /\ sess' = sess
                /\ msgs' = msgs (+) One(Msg(EndedType(t.type), t.sess, t.name,
                                            "", 0, "nil"))
       /\ tasks' = tasks (-) One(t)
  /\ UNCHANGED <<app, ctxs, last, keys, run>>

\* the loop handles a line or an end that a channel read produced
HandleStreamMsg(lim) ==
  /\ run = "running"
  /\ \E m \in BagToSet(msgs) : Handle(m, "", tasks, msgs (-) One(m), lim)
  /\ UNCHANGED keys

\* the producer goroutine of a session sends its next line; it blocks while the
\* channel is full
Produce(lim) ==
  /\ run = "running"
  /\ \E i \in 1..Len(sess) :
       /\ ~sess[i].done
       /\ ~ctxs[sess[i].ctx]
       /\ sess[i].n < lim.lines
       /\ Len(sess[i].q) < QueueCap
       /\ sess' = [sess EXCEPT ![i].n = @ + 1, ![i].q = Append(@, sess[i].n + 1)]
  /\ UNCHANGED <<app, ctxs, tasks, msgs, last, keys, run>>

\* the producer goroutine returns and its deferred close runs: because its
\* context was cancelled, or because the stream ended or failed
ProducerEnd ==
  /\ run = "running"
  /\ \E i \in 1..Len(sess) :
       /\ ~sess[i].done
       /\ sess' = [sess EXCEPT ![i].done = TRUE,
                               ![i].cause = IF ctxs[sess[i].ctx]
                                            THEN "cancelled" ELSE "eof"]
  /\ UNCHANGED <<app, ctxs, tasks, msgs, last, keys, run>>

\* the producer goroutine returns because the stream call failed with an error
\* other than the cancellation; the goroutine drops the error ("_ =") and its
\* deferred close runs
ProducerFail ==
  /\ run = "running"
  /\ \E i \in 1..Len(sess) :
       /\ ~sess[i].done
       /\ ~ctxs[sess[i].ctx]
       /\ sess' = [sess EXCEPT ![i].done = TRUE, ![i].cause = "error"]
  /\ UNCHANGED <<app, ctxs, tasks, msgs, last, keys, run>>

\* the modals whose code is at hand, the arguments their Show is called with
Modals ==
  {"confirmDialog", "scaleDialog", "containerSelector", "podMultiSelector",
   "passphraseInput"}
ConfirmActions ==
  {"ConfirmActionDeletePod", "ConfirmActionRestartPod",
   "ConfirmActionDeleteDeployment", "ConfirmActionRestartDeployment"}
\* the arguments Show is called with
ShowArgs(n) ==
  CASE n = "confirmDialog" -> ConfirmActions \X {"p1", "dep"}
    [] n = "scaleDialog" -> {"dep"} \X {1}
    [] n = "containerSelector" -> {<<"main", "side">>} \X {"", "main", "side"}
    [] n = "podMultiSelector" -> {{"p1"}, {"p1", "p2"}} \X {0}
    [] n = "passphraseInput" -> {"host"} \X {0}

\* ConfirmDialog.Show, ScaleDialog.Show, ContainerSelector.Show (without a
\* current container the first one is selected), PodMultiSelector.Show,
\* PassphraseInput.Show
Show(w, n, arg) ==
  CASE n = "confirmDialog" -> ShowConfirm(w, arg[1], arg[2])
    [] n = "scaleDialog" ->
         SetA(w, "scaleDialog", [visible |-> TRUE, deployName |-> arg[1]])
    [] n = "containerSelector" ->
         SetA(w, "containerSelector",
              [visible |-> TRUE,
               selected |-> IF arg[2] = "" /\ Len(arg[1]) > 0
                            THEN arg[1][1] ELSE arg[2]])
    [] n = "podMultiSelector" ->
         SetA(w, "podMultiSelector",
              [visible |-> TRUE, selected |-> {}, allPods |-> arg[1]])
    [] n = "passphraseInput" -> ShowPassphrase(w)

\* ConfirmDialog.Hide, ScaleDialog.Hide, ContainerSelector.Hide and
\* PodMultiSelector.Hide (both keep the selection), PassphraseInput.Hide
Hide(w, n) ==
  CASE n = "confirmDialog" -> SetA(w, "confirmDialog", NoConfirm)
    [] n = "scaleDialog" -> SetA(w, "scaleDialog", NoScale)
    [] n = "containerSelector" -> [w EXCEPT !.a.containerSelector.visible = FALSE]
    [] n = "podMultiSelector" -> [w EXCEPT !.a.podMultiSelector.visible = FALSE]
    [] n = "passphraseInput" -> SetA(w, "passphraseInput", [visible |-> FALSE])

\* a call of a modal's method, recorded like a handled message
Call(method, n, w) ==
  /\ app' = w.a
  /\ last' = [msg |-> Msg(method, 0, n, "", 0, "nil"), pre |-> Pre(app, sess),
              cmds |-> <<>>]
  /\ UNCHANGED <<sess, ctxs, tasks, msgs, run>>

\* some caller shows a modal, some caller hides one
ShowModal ==
  /\ \E n \in Modals : \E arg \in ShowArgs(n) : Call("Show", n, Show(World, n, arg))
  /\ UNCHANGED keys
HideModal ==
  /\ \E n \in Modals : Call("Hide", n, Hide(World, n))
  /\ UNCHANGED keys

\* a key handler opens the confirm dialog on some action and target (no key is
\* handled while connecting)
ShowConfirmDialog(lim) ==
  /\ run = "running" /\ app.ready /\ app.viewState # "ViewConnecting"
  /\ VisibleModals(app) = {}
  /\ keys < lim.keys
  /\ \E arg \in ShowArgs("confirmDialog") :
       Call("Show", "confirmDialog", Show(World, "confirmDialog", arg))
  /\ keys' = keys + 1

\* key s on a deployment opens the scale dialog
ShowScaleDialog(lim) ==
  /\ run = "running" /\ app.ready /\ app.viewState # "ViewConnecting"
  /\ VisibleModals(app) = {}
  /\ keys < lim.keys
  /\ \E arg \in ShowArgs("scaleDialog") :
       Call("Show", "scaleDialog", Show(World, "scaleDialog", arg))
  /\ keys' = keys + 1

\* the three kinds of stream session and their start and stop operations; the
\* remote stream is started on a connected SSH host with a container selected
StreamKinds == {"log", "crictl", "multi"}
Start(w, kind, podNames) ==
  CASE kind = "log" -> startLogStreaming(w)
    [] kind = "crictl" ->
         startCrictlLogStreaming([w EXCEPT !.a.sshClient = TRUE,
                                           !.a.selectedSSHHost = TRUE,
                                           !.a.selectedCrictlContainer = TRUE])
    [] kind = "multi" -> startMultiPodStreaming(w, podNames)
Stop(w, kind) ==
  CASE kind = "log" -> stopLogStream(w)
    [] kind = "crictl" -> stopCrictlLogStream(w)
    [] kind = "multi" -> stopMultiPodStreams(w)

\* some handler starts a stream session
StartStream(lim) ==
  /\ run = "running"
  /\ keys < lim.keys
  /\ \E kind \in StreamKinds, podNames \in {{"p1"}, {"p1", "p2"}} :
       LET w == Start(World, kind, podNames)
       IN /\ Len(w.s) <= MaxSessions
          /\ BagCardinality(tasks (+) SeqToBag(w.cmds)) <= lim.pending
          /\ app' = w.a /\ sess' = w.s /\ ctxs' = w.ctx
          /\ tasks' = tasks (+) SeqToBag(w.cmds)
          /\ last' = [msg |-> Msg("start", 0, kind, "", 0, "nil"),
                      pre |-> Pre(app, sess), cmds |-> w.cmds]
  /\ keys' = keys + 1
  /\ UNCHANGED <<msgs, run>>

\* some handler stops the stream session of a kind, started or not
StopStream ==
  /\ run = "running"
  /\ \E kind \in StreamKinds :
       LET w == Stop(World, kind)
       IN /\ app' = w.a /\ ctxs' = w.ctx
          /\ last' = [msg |-> Msg("stop", 0, kind, "", 0, "nil"),
                      pre |-> Pre(app, sess), cmds |-> w.cmds]
  /\ UNCHANGED <<sess, tasks, msgs, keys, run>>

\* the sources and lines given to the multi-pod viewer; line 0 is the empty one
RenderSources == {<<"p1", "main">>, <<"p1", "side">>, <<"p2", "main">>}
RenderLines == {0, 1}

\* the source of the entry given to AppendEntry differs from the source of the
\* entry given before it (the first one counts)
SourceChanged(src) ==
  last.msg.type # "AppendEntry" \/ <<last.msg.name, last.msg.cont>> # src

\* some caller appends a tagged line to the multi-pod viewer; in this
\* exploration keys counts the source changes between the lines given
AppendLine ==
  /\ Len(app.multiPodLogViewer.entries) < RenderMaxEntries
  /\ \E src \in RenderSources, line \in RenderLines :
       /\ keys + (IF SourceChanged(src) THEN 1 ELSE 0) <= RenderMaxChanges
       /\ app' = [app EXCEPT !.multiPodLogViewer =
                    AppendEntry(@, [pod |-> src[1], cont |-> src[2],
                                    sess |-> 0, line |-> line])]
       /\ last' = [msg |-> Msg("AppendEntry", 0, src[1], src[2], line, "nil"),
                   pre |-> Pre(app, sess), cmds |-> <<>>]
       /\ keys' = keys + (IF SourceChanged(src) THEN 1 ELSE 0)
  /\ UNCHANGED <<sess, ctxs, tasks, msgs, run>>

\* the limits of one exploration
Limits(k, p, l) == [keys |-> k, pending |-> p, lines |-> l]

\* the overlays, the lists they open from and the views around them
ModalKeys == {"enter", "esc", "?", "l", "L", "d", "y", "9", "5"}
ModalReturns == Returns({"nil", "passphrase", "error"}, {{"p1"}}, {1})
ModalLimits == Limits(ModalMaxKeys, MaxPending, MaxLines)
\* the single-source log views and the ways in and out of them
StreamKeys == {"enter", "l", "f", "r", "2", "9"}
StreamReturns == Returns({"nil"}, {{"p1"}}, {1})
StreamLimits == Limits(StreamMaxKeys, StreamMaxPending, MaxLines)
\* the multi-pod selector and viewer
MultiKeys == {"enter", "L", "space", "esc"}
MultiSels == {"p1", AllPodsValue}
MultiReturns == Returns({"nil"}, {{"p1", "p2"}}, {1})
MultiLimits == Limits(MaxKeys, MaxPending, MaxLines)

\* the refresh timers: the pods and events views, the list filter, follow mode,
\* the ways into the pods view (namespace list, digit, esc, logs, pod deletion)
RefreshKeys == {"enter", "esc", "/", "f", "r", "2", "5", "l", "d", "y"}
RefreshReturns == Returns({"nil"}, {{"p1"}}, {1})
RefreshLimits == Limits(RefreshMaxKeys, RefreshMaxPending, MaxLines)

\* the confirm dialog: its shortcut keys and the keys of its form
ConfirmKeys == {"y", "Y", "n", "N", "esc", "left", "enter"}
ConfirmReturns == Returns({"nil"}, {{"p1"}}, {1})
ConfirmLimits == Limits(ConfirmMaxKeys, ConfirmMaxPending, MaxLines)

\* the logs view: its two parents, the ways to leave them while the containers
\* are fetched, follow mode, esc
LogsKeys == {"enter", "l", "esc", "f", "5"}
LogsReturns == Returns({"nil"}, {{"p1"}}, {1})
LogsLimits == Limits(LogsMaxKeys, LogsMaxPending, LogsMaxLines)

\* the stop operations: the connection result, then starts and stops
StopReturns == Returns({"nil", "error"}, {{"p1"}}, {1})
StopLimits == Limits(StopMaxStarts, StopMaxPending, MaxLines)

\* follow mode in the multi-pod logs view: one pod selected, f toggles
FollowKeys == {"enter", "L", "space", "f"}
FollowLimits == Limits(FollowMaxKeys, FollowMaxPending, LogsMaxLines)

\* failing streams: the pod logs with follow toggled
FailKeys == {"enter", "l", "f"}
FailLimits == Limits(FailMaxKeys, FailMaxPending, LogsMaxLines)

\* the fetch results: every list and detail view, every fetch failing or not
FetchKeys == {"enter", "l", "3", "4", "5", "9"}
FetchReturns == Returns({"nil", "error"}, {{"p1"}}, {1})
FetchLimits == Limits(FetchMaxKeys, FetchMaxPending, MaxLines)

\* the mutations: each one confirmed in its dialog, failing or not
MutateKeys == {"y", "enter"}
MutateReturns == Returns({"nil", "error"}, {{"p1"}}, {1})
MutateLimits == Limits(MutateMaxKeys, MutateMaxPending, MaxLines)

\* the connections: one kubeconfig or several, the cluster and the remote host
\* connecting or failing
ConnectKeys == {"r", "esc", "enter", "9", "?"}
ConnectReturns == Returns({"nil", "error"}, {{"p1"}}, {1})
ConnectLimits == Limits(ConnectMaxKeys, ConnectMaxPending, MaxLines)
InitConfigs == \E n \in 1..MaxConfigs : InitOf(n)

\* the ways back: every view a key leads to, the cluster connected or not
BackKeys == {"enter", "l", "3", "4", "5", "9", "L", "space", "esc"}
BackReturns == Returns({"nil", "error"}, {{"p1"}}, {1})
BackLimits == Limits(BackMaxKeys, BackMaxPending, MaxLines)

NextModal ==
  \/ KeyPress(ModalKeys, {"p1"}, ModalLimits)
  \/ Deliver(ModalReturns, ModalLimits)

NextStream ==
  \/ KeyPress(StreamKeys, {"p1"}, StreamLimits)
  \/ Deliver(StreamReturns, StreamLimits)
  \/ Receive
  \/ HandleStreamMsg(StreamLimits)
  \/ Produce(StreamLimits)
  \/ ProducerEnd

NextMulti ==
  \/ KeyPress(MultiKeys, MultiSels, MultiLimits)
  \/ Deliver(MultiReturns, MultiLimits)
  \/ Receive
  \/ HandleStreamMsg(MultiLimits)
  \/ Produce(MultiLimits)
  \/ ProducerEnd

NextRefresh ==
  \/ KeyPress(RefreshKeys, {"p1"}, RefreshLimits)
  \/ Deliver(RefreshReturns, RefreshLimits)

NextModals == ShowModal \/ HideModal

NextConfirm ==
  \/ ShowConfirmDialog(ConfirmLimits)
  \/ KeyPress(ConfirmKeys, {"p1"}, ConfirmLimits)
  \/ Deliver(ConfirmReturns, ConfirmLimits)

NextLogs ==
  \/ KeyPress(LogsKeys, {"p1"}, LogsLimits)
  \/ Deliver(LogsReturns, LogsLimits)
  \/ Receive
  \/ HandleStreamMsg(LogsLimits)
  \/ Produce(LogsLimits)
  \/ ProducerEnd

NextStop ==
  \/ Deliver(StopReturns, StopLimits)
  \/ StartStream(StopLimits)
  \/ StopStream
  \/ ProducerEnd

NextRender == AppendLine

NextFollow ==
  \/ KeyPress(FollowKeys, {"p1"}, FollowLimits)
  \/ Deliver(MultiReturns, FollowLimits)
  \/ Receive
  \/ HandleStreamMsg(FollowLimits)
  \/ Produce(FollowLimits)
  \/ ProducerEnd

NextFail ==
  \/ KeyPress(FailKeys, {"p1"}, FailLimits)
  \/ Deliver(LogsReturns, FailLimits)
  \/ Receive
  \/ HandleStreamMsg(FailLimits)
  \/ Produce(FailLimits)
  \/ ProducerFail

NextFetch ==
  \/ KeyPress(FetchKeys, {"p1"}, FetchLimits)
  \/ Deliver(FetchReturns, FetchLimits)

NextMutate ==
  \/ ShowConfirmDialog(MutateLimits)
  \/ ShowScaleDialog(MutateLimits)
  \/ KeyPress(MutateKeys, {"p1"}, MutateLimits)
  \/ Deliver(MutateReturns, MutateLimits)

NextConnect ==
  \/ KeyPress(ConnectKeys, {"p1"}, ConnectLimits)
  \/ Deliver(ConnectReturns, ConnectLimits)

NextBack ==
  \/ KeyPress(BackKeys, {"p1"}, BackLimits)
  \/ Deliver(BackReturns, BackLimits)

SpecModal == Init /\ [][NextModal]_vars
SpecStream == Init /\ [][NextStream]_vars
SpecMulti == Init /\ [][NextMulti]_vars
SpecRefresh == Init /\ [][NextRefresh]_vars
SpecModals == Init /\ [][NextModals]_vars
SpecConfirm == Init /\ [][NextConfirm]_vars
SpecLogs == Init /\ [][NextLogs]_vars
SpecStop == Init /\ [][NextStop]_vars
SpecRender == Init /\ [][NextRender]_vars
SpecFollow == Init /\ [][NextFollow]_vars
SpecFail == Init /\ [][NextFail]_vars
SpecFetch == Init /\ [][NextFetch]_vars
SpecMutate == Init /\ [][NextMutate]_vars
SpecConnect == InitConfigs /\ [][NextConnect]_vars
SpecBack == Init /\ [][NextBack]_vars

\* ================================================================== claims
TaskResultTypes ==
  {"connectResultMsg", "namespacesResultMsg", "podsResultMsg",
   "podDetailsResultMsg", "podDeleteResultMsg", "podRestartResultMsg",
   "containersResultMsg", "logsResultMsg", "sshConnectResultMsg",
   "sshCrictlContainersMsg", "sshNodeInfoMsg", "sshCrictlLogsMsg",
   "deploymentsResultMsg", "deploymentDetailsResultMsg",
   "deploymentScaleResultMsg", "deploymentRestartResultMsg",
   "deploymentDeleteResultMsg", "servicesResultMsg",
   "serviceDetailsResultMsg", "eventsResultMsg"}
SingleEndedTypes == {"logStreamEndedMsg", "sshCrictlLogStreamEndedMsg"}
SingleLineTypes == {"logLineMsg", "sshCrictlLogLineMsg"}

\* C1: after any sequence of handled messages at most one modal is visible,
\* also when a task result opens one (the passphrase input) while another is
\* open.  The program does not keep this: an SSH connect result that asks for
\* the passphrase shows the input over a help screen opened meanwhile.
C1_AtMostOneModal == Cardinality(VisibleModals(app)) <= 1

\* C2: a task-result message handled while a modal is visible does not change
\* the view state.  The program does not keep this: Update dispatches on the
\* message type before it looks at the dialogs.
C2_ModalOwnsTaskResults ==
  (last.msg.type \in TaskResultTypes /\ last.pre.modals # {})
    => app.viewState = last.pre.viewState

\* C3: the end of a single-source stream whose session was cancelled schedules
\* no restart and shows no notification.  The program does not keep this: the
\* ended message never carries the cancellation, so with follow on in the log
\* view the handler restarts.
C3_CancelledEndIsSilent ==
  (last.msg.type \in SingleEndedTypes /\ sess[last.msg.sess].cause = "cancelled")
    => last.cmds = <<>>


\* the single-source stream whose end was handled last: its follow mode and its
\* view before the message, the command that waits on one of its channels
EndedKind == IF last.msg.type = "logStreamEndedMsg" THEN "pod" ELSE "crictl"
FollowingBefore ==
  IF EndedKind = "pod" THEN last.pre.following ELSE last.pre.crictlFollowing
InLogViewBefore ==
  last.pre.viewState = IF EndedKind = "pod" THEN "ViewLogs" ELSE "ViewCrictlLogs"
NaturalEnd ==
  /\ last.msg.type \in SingleEndedTypes
  /\ sess[last.msg.sess].cause = "eof"
\* exactly one restart: one new session (producer and channel) of the same
\* kind, one command, waiting on it, and no tail asked for
OneRestartWithoutTail ==
  /\ Len(sess) = last.pre.nsess + 1
  /\ sess[Len(sess)].kind = EndedKind
  /\ sess[Len(sess)].tail = 0
  /\ last.cmds =
       << WaitTask(IF EndedKind = "pod" THEN "waitForLogLine"
                   ELSE "waitForCrictlLogLine", Len(sess), "", "") >>

\* C4 (as amended): with follow on and the log view still current, handling the
\* end of a single-source stream that was not cancelled schedules exactly one
\* restart (one producer, one channel, one waiting command) that asks for no
\* tail; the same for the remote-container stream.
C4_RestartOnNaturalEnd ==
  (NaturalEnd /\ FollowingBefore /\ InLogViewBefore) => OneRestartWithoutTail

\* C4, reached: such an end was handled in the log view with follow on, and
\* the handler returned a command
C4_Witness ==
  /\ NaturalEnd /\ FollowingBefore /\ InLogViewBefore
  /\ last.cmds # <<>>

\* C4 as stated: follow on and an end that was not cancelled are enough for the
\* restart.  Refuted: after a digit key left the log view with the stream
\* running, the end restarts nothing.
C4_AsStated == (NaturalEnd /\ FollowingBefore) => OneRestartWithoutTail

\* C5: once the multi-source session is stopped, the end of one of its sources
\* emits no restart, whatever was handled in between (a new session included).
\* The program does not keep this: the end carries no cancellation, and the
\* handler finds the new session's view, flag and context.
C5_NoRestartAfterStop ==
  (/\ last.msg.type = "multiPodLogStreamEndedMsg"
   /\ sess[last.msg.sess].cause = "cancelled")
    => last.cmds = <<>>

\* the commands waiting on the channel of session i
WaitersOn(i) ==
  LET W == {t \in BagToSet(tasks) : t.type \in WaitKinds /\ t.sess = i}
  IN BagCardinality([t \in W |-> tasks[t]])

\* C6: a line channel never has more than one outstanding waiting command.
\* The program does not keep this: a line of the previous session handled after
\* a new start waits on the new session's channel as well.
C6_SingleConsumer == \A i \in 1..Len(sess) : WaitersOn(i) <= 1

\* the lines kept by the viewer a line message belongs to
ViewerLines(type) ==
  CASE type = "logLineMsg" -> app.logViewer.lines
    [] type = "sshCrictlLogLineMsg" -> app.crictlLogViewer.lines
    [] type = "multiPodLogLineMsg" -> app.multiPodLogViewer.entries

\* C7: every line the loop dequeues is appended to its viewer, whatever the
\* view is when the line message is handled.  The program does not keep this:
\* a line handled outside its log view is discarded.
C7_DequeuedLineIsAppended ==
  last.msg.type \in SingleLineTypes \cup {"multiPodLogLineMsg"}
    => \E i \in DOMAIN ViewerLines(last.msg.type) :
         /\ ViewerLines(last.msg.type)[i].sess = last.msg.sess
         /\ ViewerLines(last.msg.type)[i].line = last.msg.line

FifoIn(lines) ==
  \A i, j \in DOMAIN lines :
    (i < j /\ lines[i].sess = lines[j].sess) => lines[i].line < lines[j].line

\* C8: the lines of one source appear in its viewer in the order the producer
\* enqueued them.  The program does not keep this: two commands waiting on one
\* channel deliver their lines in either order.
C8_FifoWithinSource ==
  /\ FifoIn(app.logViewer.lines)
  /\ FifoIn(app.crictlLogViewer.lines)
  /\ FifoIn(app.multiPodLogViewer.entries)

\* a tick handled in a view other than the one that armed it
StaleTick ==
  \/ last.msg.type = "podRefreshTickMsg" /\ last.pre.viewState # "ViewPods"
  \/ last.msg.type = "eventRefreshTickMsg" /\ last.pre.viewState # "ViewEvents"

\* C9 (as amended): a refresh tick handled while the current view differs from
\* the view that armed it produces no fetch and does not re-arm: the chain of
\* ticks ends there.
C9_StaleTickEndsChain == StaleTick => last.cmds = <<>>

\* C9, reached: a tick armed by the pods or the events view was handled after
\* the user went back to the namespaces view
C9_Witness == StaleTick /\ last.pre.viewState = "ViewNamespaces"

\* C9 as stated: such a tick fetches nothing but still re-arms the next tick.
C9_AsStated ==
  StaleTick =>
    \/ last.cmds = <<schedulePodRefresh>>
    \/ last.cmds = <<scheduleEventRefresh>>

\* C10: a pod-refresh tick in the pods view, or an event-refresh tick in the
\* events view, handled while a modal is visible emits no fetch.  The program
\* does not keep this: the pod tick looks at the confirm dialog only, the event
\* tick at no modal.
C10_NoFetchUnderModal ==
  (/\ last.pre.modals # {}
   /\ \/ last.msg.type = "podRefreshTickMsg" /\ last.pre.viewState = "ViewPods"
      \/ last.msg.type = "eventRefreshTickMsg"
           /\ last.pre.viewState = "ViewEvents")
    => \A i \in DOMAIN last.cmds : last.cmds[i] \notin {fetchPods, fetchEvents}


\* pending ticks of each kind
PodTicks == CopiesIn(schedulePodRefresh, tasks)
EventTicks == CopiesIn(scheduleEventRefresh, tasks)

\* a tick handled in its own view that found a reason to skip the fetch (a tick
\* changes neither the filter nor the follow mode)
PodTickSkipped ==
  /\ last.msg.type = "podRefreshTickMsg" /\ last.pre.viewState = "ViewPods"
  /\ app.podFilter # "Unfiltered"
EventTickSkipped ==
  /\ last.msg.type = "eventRefreshTickMsg" /\ last.pre.viewState = "ViewEvents"
  /\ ~app.eventViewer.following

C12_TimerArmedInView ==
  (run = "running" /\ app.k8sClient) =>
    /\ app.viewState = "ViewPods" => PodTicks >= 1
    /\ app.viewState = "ViewEvents" => EventTicks >= 1

\* C12, reached: back in the pods view from the events view, after a tick of
\* the pods view was handled there
C12_Witness ==
  /\ last.msg.type = "KeyMsg" /\ last.msg.name = "esc"
  /\ last.pre.viewState = "ViewEvents" /\ app.viewState = "ViewPods"
  /\ app.k8sClient /\ PodTicks >= 1

\* the steps that keep the pods view (the events view) current and connected
StaysInPods ==
  /\ app.viewState = "ViewPods" /\ app'.viewState = "ViewPods"
  /\ app.k8sClient /\ app'.k8sClient /\ run' = "running"
StaysInEvents ==
  /\ app.viewState = "ViewEvents" /\ app'.viewState = "ViewEvents"
  /\ app.k8sClient /\ app'.k8sClient /\ run' = "running"

\* C13: tick chains only accumulate.  A step into the pods view (the events
\* view) adds a pending tick to those already pending, and no step that stays
\* in the view removes one: each tick handled there leaves its successor.
C13_TickChainsAccumulate ==
  [][ /\ (app.viewState # "ViewPods" /\ app'.viewState = "ViewPods")
         => PodTicks' = PodTicks + 1
      /\ (app.viewState # "ViewEvents" /\ app'.viewState = "ViewEvents")
         => EventTicks' = EventTicks + 1
      /\ StaysInPods => PodTicks' >= PodTicks
      /\ StaysInEvents => EventTicks' >= EventTicks ]_vars

\* C13, reached: two ticks of the pods view are pending in the pods view
C13_Witness == app.viewState = "ViewPods" /\ PodTicks >= 2


\* the step handles key k while the confirm dialog is visible
ConfirmKeyStep(ks) ==
  /\ app.confirmDialog.visible
  /\ last'.msg.type = "KeyMsg" /\ last'.msg.name \in ks

\* the task that carries out a confirmed action on its target
TaskOf(action, targetName) ==
  [type |-> CASE action = "ConfirmActionDeletePod" -> "deletePod"
              [] action = "ConfirmActionRestartPod" -> "restartPod"
              [] action = "ConfirmActionDeleteDeployment" -> "deleteDeployment"
              [] action = "ConfirmActionRestartDeployment" -> "restartDeployment",
   sess |-> 0, name |-> targetName, cont |-> ""]

\* C14: with the confirm dialog shown on action A and target T, key y or Y
\* (whatever the form's choice) hides the dialog and emits exactly the task
\* that carries out A on T; key n, N or esc hides the dialog and emits no task.
C14_ConfirmShortcuts ==
  [][ /\ ConfirmKeyStep({"y", "Y"}) =>
           /\ ~app'.confirmDialog.visible
           /\ last'.cmds = <<TaskOf(app.confirmDialog.action,
                                    app.confirmDialog.targetName)>>
           /\ tasks' = tasks (+) One(TaskOf(app.confirmDialog.action,
                                            app.confirmDialog.targetName))
      /\ ConfirmKeyStep({"n", "N", "esc"}) =>
           /\ ~app'.confirmDialog.visible
           /\ last'.cmds = <<>> /\ tasks' = tasks ]_vars

\* C14, reached: y confirmed the restart of a deployment while the form's
\* choice stood on No, and the restart is pending
C14_Witness ==
  /\ last.msg.type = "KeyMsg" /\ last.msg.name = "y"
  /\ "confirmDialog" \in last.pre.modals
  /\ ~app.confirmDialog.visible
  /\ last.cmds = <<restartDeployment("dep")>>

\* C15: a modal that was never shown is not visible; after Show the modal is
\* visible, after Hide it is not, and a call on one modal leaves the visibility
\* of the others as it was: IsVisible reports the most recent of the two calls.
C15_VisibleIffShown ==
  /\ last.msg.type = "none" => VisibleModals(app) = {}
  /\ last.msg.type = "Show" =>
       VisibleModals(app) = last.pre.modals \cup {last.msg.name}
  /\ last.msg.type = "Hide" =>
       VisibleModals(app) = last.pre.modals \ {last.msg.name}

\* C15, reached: a modal that was shown is hidden while another stays visible
C15_Witness ==
  /\ last.msg.type = "Hide" /\ last.msg.name = "confirmDialog"
  /\ last.pre.modals = {"confirmDialog", "scaleDialog"}
  /\ ~app.confirmDialog.visible /\ app.scaleDialog.visible


\* the step handles key l in one of the two parents of the logs view
LogsRequested ==
  /\ last'.msg.type = "KeyMsg" /\ last'.msg.name = "l"
  /\ \E p \in Pods : last'.cmds = <<fetchContainers(p)>>

\* the step handles esc in the logs view, no overlay open
EscInLogs ==
  /\ last'.msg.type = "KeyMsg" /\ last'.msg.name = "esc"
  /\ app.viewState = "ViewLogs" /\ VisibleModals(app) = {}

\* C16: the parent of the logs view is the view in which l was pressed, and
\* nothing else changes it, whatever is handled before the containers result
\* shows the logs view; esc in the logs view cancels the stream and makes that
\* parent current.
C16_EscRestoresParent ==
  [][ /\ LogsRequested =>
           /\ app.viewState \in {"ViewPods", "ViewPodDetails"}
           /\ app'.logSourceView = app.viewState
      /\ ~LogsRequested => app'.logSourceView = app.logSourceView
      /\ (app.viewState # "ViewLogs" /\ app'.viewState = "ViewLogs") =>
           app.logSourceView \in {"ViewPods", "ViewPodDetails"}
      /\ EscInLogs =>
           /\ app'.viewState = app.logSourceView
           /\ ~app'.logStreamActive /\ app'.logStreamCancel = 0
           /\ app.logStreamCancel # 0 => ctxs'[app.logStreamCancel] ]_vars

\* C16, reached: l in pod details, esc to the pod list before the containers
\* result arrives (the selected pod is forgotten), the result shows the logs
\* view, esc there makes pod details current
C16_Witness ==
  /\ last.msg.type = "KeyMsg" /\ last.msg.name = "esc"
  /\ last.pre.viewState = "ViewLogs" /\ last.pre.selectedPodName = ""
  /\ app.viewState = "ViewPodDetails"


\* what Update answers to a digit key in the current state
OnDigit(key) == Update(World, KeyMsg(key), "p1")
NoOp(w) == w.a = app /\ w.cmds = <<>> /\ w.s = sess /\ w.ctx = ctxs /\ w.run = run
Disconnected == app.connectionStatus # "StatusConnected"

\* the key reaches the switch of handleKeyMsg: not connecting, no overlay open,
\* the pod list's filter not being edited
ReachesSwitch ==
  /\ app.viewState # "ViewConnecting"
  /\ VisibleModals(app) = {}
  /\ ~(app.viewState = "ViewPods" /\ app.podFilter = "Filtering")

C18_StopIsIdempotent ==
  /\ \A kind \in StreamKinds :
       Stop(Stop(World, kind), kind) = Stop(World, kind)
  /\ last.msg.type = "stop" => Stop(World, last.msg.name) = World

\* C18, reached: the multi-pod streams of two pods were stopped, their context
\* is cancelled and their producers have not ended yet
C18_Witness ==
  /\ last.msg.type = "stop" /\ last.msg.name = "multi"
  /\ app.multiPodStreamCancel = 0 /\ ~app.multiPodStreamActive
  /\ \E i, j \in 1..Len(sess) :
       /\ i # j /\ sess[i].kind = "multi" /\ sess[j].kind = "multi"
       /\ sess[i].ctx = sess[j].ctx /\ ctxs[sess[i].ctx]
       /\ ~sess[i].done /\ ~sess[j].done


\* the header lines of the multi-pod viewer's content
Headers(content) ==
  Cardinality({i \in DOMAIN content : content[i].kind = "header"})

\* the source changes between adjacent entries, the first entry counting
Changes(entries) ==
  Cardinality({i \in DOMAIN entries :
                 i = 1 \/ Source(entries[i]) # Source(entries[i - 1])})

MultiNaturalEndUnfollowed ==
  /\ last.msg.type = "multiPodLogStreamEndedMsg"
  /\ sess[last.msg.sess].cause = "eof"
  /\ ~app.multiPodLogViewer.following

\* C20: a source of the multi-pod session whose stream ended without
\* cancellation while follow mode is off is not restarted (no command, no new
\* session), and a session whose counter has reached zero is inactive.
C20_NoRestartWithoutFollow ==
  MultiNaturalEndUnfollowed =>
    /\ last.cmds = <<>> /\ Len(sess) = last.pre.nsess
    /\ app.multiPodActiveStreams <= 0 => ~app.multiPodStreamActive


\* the end of a single-source stream that failed (not by cancellation), handled
\* with its follow mode off
FailedEndUnfollowed ==
  /\ last.msg.type \in SingleEndedTypes
  /\ sess[last.msg.sess].cause = "error"
  /\ ~FollowingBefore

\* C21: the end of a single-source stream that failed with an error other than
\* the cancellation, handled with follow mode off, carries that error to the
\* loop and shows an informational notification.
C21_FailedEndNotifies ==
  FailedEndUnfollowed =>
    /\ last.msg.err # "nil"
    /\ app.notification.visible /\ app.notification.kind = "info"
    /\ last.cmds = <<Task("notificationExpired", 0, "", "")>>


\* the results of the list and detail fetches
FetchResultTypes ==
  {"namespacesResultMsg", "podsResultMsg", "podDetailsResultMsg",
   "deploymentsResultMsg", "deploymentDetailsResultMsg", "servicesResultMsg",
   "serviceDetailsResultMsg", "eventsResultMsg", "containersResultMsg",
   "logsResultMsg", "sshCrictlContainersMsg", "sshCrictlLogsMsg"}
FetchFailed == last.msg.type \in FetchResultTypes /\ last.msg.err # "nil"

\* C22: a list or detail fetch result that carries an error records the error,
\* clears the loading flag, returns no command and leaves the view as it was.
C22_FetchErrorKeepsView ==
  FetchFailed =>
    /\ app.viewState = last.pre.viewState
    /\ app.err /\ ~app.loading
    /\ last.cmds = <<>>

\* C22, reached: the containers fetch failed after l in the pod list; the pod
\* list is still current
C22_Witness ==
  /\ FetchFailed /\ last.msg.type = "containersResultMsg"
  /\ app.viewState = "ViewPods" /\ app.err


\* the acknowledgments of the mutations, and the commands that mutate or fetch
MutationResultTypes ==
  {"podDeleteResultMsg", "podRestartResultMsg", "deploymentScaleResultMsg",
   "deploymentRestartResultMsg", "deploymentDeleteResultMsg"}
MutationFailed == last.msg.type \in MutationResultTypes /\ last.msg.err # "nil"
NoNewCommand ==
  \A t \in BagToSet(tasks') :
    t.type \in K8sCommands => CopiesIn(t, tasks') <= CopiesIn(t, tasks)

\* C23: handling a mutation acknowledgment that carries an error shows an
\* error notification and returns its expiry timer only: no mutation and no
\* fetch is issued, and the view and the selected pod and deployment stay.
C23_MutationErrorNotRetried ==
  [][ MutationFailed' =>
        /\ app'.notification = [visible |-> TRUE, kind |-> "error"]
        /\ last'.cmds = <<Task("notificationExpired", 0, "", "")>>
        /\ NoNewCommand
        /\ app'.viewState = app.viewState
        /\ app'.selectedPodName = app.selectedPodName
        /\ app'.selectedDeployName = app.selectedDeployName ]_vars

\* C23, reached: the scaling of a deployment failed; the error is notified and
\* the view is the one the acknowledgment arrived in
C23_Witness ==
  /\ MutationFailed /\ last.msg.type = "deploymentScaleResultMsg"
  /\ app.notification.visible /\ app.notification.kind = "error"
  /\ app.viewState = last.pre.viewState


\* the step handles a result of the given type that carries a plain error
FailedResult(type) ==
  last'.msg.type = type /\ last'.msg.err \notin {"nil", "passphrase"}
\* the step handles key k in view v with no modal visible
KeyIn(k, v) ==
  /\ last'.msg.type = "KeyMsg" /\ last'.msg.name = k
  /\ app.viewState = v /\ VisibleModals(app) = {}
\* the step returns a connect command
ConnectIssued == \E i \in DOMAIN last'.cmds : last'.cmds[i] = connectToCluster
\* a connect failed and none succeeded since
ConnectFailed == app.err /\ ~app.k8sClient /\ app.connectionStatus # "StatusConnecting"

StillPending == BagToSet(tasks) \cap BagToSet(tasks')

\* C25: a command uses nothing of the App but what it was given when it was
\* created: the results a pending command can produce are the same before
\* and after every step the loop takes while the command is pending.
C25_TaskResultFixedAtCreation ==
  [][ \A t \in StillPending : ResultErrs(t, app') = ResultErrs(t, app) ]_vars


\* no modal is visible, no list filter is being edited, and the view is not one
\* of the two connecting views, which ignore every key but ctrl+c
KeysReachView ==
  /\ run = "running" /\ app.ready
  /\ VisibleModals(app) = {} /\ app.podFilter # "Filtering"
  /\ app.viewState \notin {"ViewConnecting", "ViewSSHConnecting"}
AfterQ == Update(World, KeyMsg("q"), "p1")

\* C26: with no modal visible and no filter being edited, q quits from every
\* view, with every stream of logs cancelled and the remote-host connection
\* closed.
C26_QuitsFromEveryView ==
  KeysReachView =>
    /\ AfterQ.run = "quit"
    /\ AfterQ.a.logStreamCancel = 0 /\ AfterQ.a.crictlLogStreamCancel = 0
    /\ AfterQ.a.multiPodStreamCancel = 0
    /\ ~AfterQ.a.sshClient


\* the order in which the visibility of the modals is tested, and the first
\* visible one
ModalOrder ==
  <<"confirmDialog", "scaleDialog", "helpScreen", "containerSelector",
    "podMultiSelector", "passphraseInput", "searchInput">>
FirstOf(order, a) ==
  order[CHOOSE i \in DOMAIN order :
          /\ a[order[i]].visible
          /\ \A j \in 1..(i - 1) : ~a[order[j]].visible]
\* what modal n does with message m, and nothing else
RouteTo(n, w, m, sel) ==
  CASE n = "confirmDialog" -> routeConfirmDialog(w, m)
    [] n = "scaleDialog" -> routeScaleDialog(w, m)
    [] n = "helpScreen" ->
         IF IsKey(m, {"?", "esc"})
         THEN [w EXCEPT !.a.helpScreen.visible = FALSE] ELSE w
    [] n = "containerSelector" -> routeContainerSelector(w, m)
    [] n = "podMultiSelector" -> routePodMultiSelector(w, m, sel)
    [] n = "passphraseInput" -> routePassphraseInput(w, m)
    [] n = "searchInput" -> keySearchInput(w, m.name)
\* the keys tried on every state, and the modals a form message can reach
RoutedKeys == {"y", "n", "esc", "enter", "?", "q", "r", "l", "d", "left", "2"}
FormOrder == SelectSeq(ModalOrder, LAMBDA n : n \notin {"helpScreen", "searchInput"})
FormMsg == Msg("formMsg", 0, "", "", 0, "nil")

Parent(v, connected) ==
  CASE v = "ViewPodDetails" -> "ViewPods"
    [] v = "ViewPods" -> "ViewNamespaces"
    [] v = "ViewDeployments" -> "ViewPods"
    [] v = "ViewDeploymentDetails" -> "ViewDeployments"
    [] v = "ViewServices" -> "ViewPods"
    [] v = "ViewServiceDetails" -> "ViewServices"
    [] v = "ViewEvents" -> "ViewPods"
    [] v = "ViewMultiPodLogs" -> "ViewPods"
    [] v = "ViewCrictlLogs" -> "ViewCrictlContainers"
    [] v \in {"ViewCrictlContainers", "ViewNodeInfo"} -> "ViewSSHHosts"
    [] v = "ViewSSHHosts" -> IF connected THEN "ViewPods" ELSE "ViewNamespaces"
    [] OTHER -> v
HasParent == {v \in Views : Parent(v, TRUE) # v}
AfterEsc == Update(World, KeyMsg("esc"), "p1")

\* C28: with no modal visible and no filter being edited, esc in a view other
\* than the logs view leads to the parent the view has in a fixed table,
\* whatever the views visited before; in the logs view it leads to the view
\* stored when the logs were opened.
C28_EscFollowsParentTable ==
  (VisibleModals(app) = {} /\ app.podFilter # "Filtering") =>
    /\ app.viewState \in HasParent =>
         AfterEsc.a.viewState =
           Parent(app.viewState, app.connectionStatus = "StatusConnected")
    /\ app.viewState = "ViewLogs" =>
         AfterEsc.a.viewState =
           IF app.logSourceView = "ViewPods" THEN "ViewPods" ELSE "ViewPodDetails"

\* C28, reached: esc in the details of a deployment, entered from the list of
\* deployments, led back to that list
C28_Witness ==
  /\ last.msg.type = "KeyMsg" /\ last.msg.name = "esc"
  /\ last.pre.viewState = "ViewDeploymentDetails" /\ last.pre.modals = {}
  /\ app.viewState = "ViewDeployments"


\* the producers of one kind that run under a scope nobody cancelled
LiveProducers(kind) ==
  {i \in DOMAIN sess : sess[i].kind = kind /\ ~sess[i].done /\ ~ctxs[sess[i].ctx]}
Started(kind) == {i \in DOMAIN sess : sess[i].kind = kind}

\* C29: at every moment at most one producer of the pod-log session, and at
\* most one of the remote-container log session, runs under a scope that has
\* not been cancelled.
C29_OneLiveProducer ==
  /\ Cardinality(LiveProducers("pod")) <= 1
  /\ Cardinality(LiveProducers("crictl")) <= 1

\* C29, reached: the pod-log stream was started a second time; the first
\* producer's scope is cancelled and the second producer runs
C29_Witness ==
  /\ Cardinality(Started("pod")) >= 2
  /\ Cardinality(LiveProducers("pod")) = 1
  /\ \E i \in Started("pod") : ~sess[i].done /\ ctxs[sess[i].ctx]


\* the multi-source sessions the message handled last has opened
OpenedByLast ==
  {i \in (last.pre.nsess + 1)..Len(sess) : sess[i].kind = "multi"}
InitialStart ==
  last.msg.type # "multiPodLogStreamEndedMsg" /\ OpenedByLast # {}
RestartAfterEnd ==
  /\ last.msg.type = "multiPodLogStreamEndedMsg" /\ OpenedByLast # {}
  /\ sess[last.msg.sess].cause # "cancelled"

\* C30: the start of a multi-source session opens one stream per selected
\* source, each asking for a tail of 100 lines; the restart of a source after
\* an end of its stream that was not a cancellation opens one stream for that
\* source, asking for a tail of 0 lines.
C30_TailOnlyOnInitialStart ==
  /\ InitialStart =>
       /\ \A i \in OpenedByLast : sess[i].tail = 100
       /\ {sess[i].name : i \in OpenedByLast} = app.multiPodLogViewer.pods
  /\ RestartAfterEnd =>
       \A i \in OpenedByLast : sess[i].tail = 0 /\ sess[i].name = last.msg.name

\* C30, reached: a source started with a tail of 100 ended by itself and was
\* started again with a tail of 0
C30_Witness ==
  /\ RestartAfterEnd
  /\ sess[last.msg.sess].tail = 100
  /\ \E i \in OpenedByLast : sess[i].tail = 0


\* the end of stream handled last is that of a single-source session that a
\* newer start of the same kind had replaced when the message was handled
SupersededEnd ==
  /\ last.msg.type \in SingleEndedTypes
  /\ \E j \in (last.msg.sess + 1)..last.pre.nsess :
       sess[j].kind = sess[last.msg.sess].kind

\* C31: handling the end of stream of a superseded single-source session
\* starts no producer: the sessions are those that existed before the message.
C31_StaleEndStartsNothing ==
  SupersededEnd => Len(sess) = last.pre.nsess


\* the sources that have a line channel in the map
SourcesWithChan == {p \in Pods : app.multiPodLineChanMap[p] # 0}

\* C32: the counter of active multi-source streams is never negative and
\* equals the number of sources that have a line channel in the map.
C32_ActiveStreamsCountsChans ==
  /\ app.multiPodActiveStreams >= 0
  /\ app.multiPodActiveStreams = Cardinality(SourcesWithChan)


\* C33: outside the logs view the pod-log session is inactive and its scope
\* released; outside the multi-pod logs view so is the multi-source session;
\* outside the remote logs view so is the remote-container session.
C33_LeavingLogViewStopsStream ==
  /\ app.viewState # "ViewLogs" =>
       ~app.logStreamActive /\ app.logStreamCancel = 0
  /\ app.viewState # "ViewMultiPodLogs" =>
       ~app.multiPodStreamActive /\ app.multiPodStreamCancel = 0
  /\ app.viewState # "ViewCrictlLogs" =>
       ~app.crictlLogStreamActive /\ app.crictlLogStreamCancel = 0


\* the views that show resources of the cluster
ClusterViews ==
  {"ViewNamespaces", "ViewPods", "ViewPodDetails", "ViewLogs",
   "ViewMultiPodLogs", "ViewDeployments", "ViewDeploymentDetails",
   "ViewServices", "ViewServiceDetails", "ViewEvents"}

\* C34: while a view of cluster resources is current the cluster client is
\* set, and no key handler has dereferenced a nil client.
C34_ClusterViewHasClient ==
  /\ app.viewState \in ClusterViews => app.k8sClient
  /\ run # "panic"


\* the producers of source p that have not returned and whose scope nobody
\* cancelled
LiveMulti(p) ==
  {i \in DOMAIN sess : /\ sess[i].kind = "multi" /\ sess[i].name = p
                       /\ ~sess[i].done /\ ~ctxs[sess[i].ctx]}

\* C35: a multi-source session has at most one live producer per source, and
\* every live producer streams a pod selected when the session was started.
C35_OneLiveProducerPerSource ==
  \A p \in Pods :
    /\ Cardinality(LiveMulti(p)) <= 1
    /\ LiveMulti(p) # {} => p \in app.multiPodLogViewer.pods


\* C36: the logs view becomes current only from the pods view or the
\* pod-details view: whenever the last handled message made ViewLogs the
\* current view, the view current when it was handled was ViewPods or
\* ViewPodDetails.
EnteredLogs == app.viewState = "ViewLogs" /\ last.pre.viewState # "ViewLogs"

C36_LogsEnteredFromPodViews ==
  EnteredLogs => last.pre.viewState \in {"ViewPods", "ViewPodDetails"}


\* ---------------------------------------------------------------- loading
\* the keys that set the loading flag, in the cluster views and the ssh views
LoadMaxKeys == 3
LoadMaxPending == 4
LoadKeys == {"enter", "l", "3", "5", "9", "r", "esc", "t"}
LoadReturns == Returns({"nil", "error", "passphrase"}, {{"p1"}}, {1})
LoadLimits == Limits(LoadMaxKeys, LoadMaxPending, MaxLines)


NextLoad ==
  \/ KeyPress(LoadKeys, {"p1"}, LoadLimits)
  \/ Deliver(LoadReturns, LoadLimits)

\* the messages whose handlers start with a.loading = false
ClearingTypes ==
  {"namespacesResultMsg", "podsResultMsg", "podDetailsResultMsg",
   "deploymentsResultMsg", "deploymentDetailsResultMsg", "servicesResultMsg",
   "serviceDetailsResultMsg", "eventsResultMsg", "containersResultMsg",
   "logsResultMsg", "sshConnectResultMsg", "sshCrictlContainersMsg",
   "sshCrictlLogsMsg"}

\* the message of a command of one of these kinds reaches the loop and is
\* handled
DeliverClearing(ret, lim) == Deliver(ret, lim) /\ last'.msg.type \in ClearingTypes

\* every command runs in a goroutine of its own and the loop handles each
\* message sent to it: a command whose call returns has its message handled
SpecLoad ==
  /\ Init
  /\ [][NextLoad]_vars
  /\ WF_vars(DeliverClearing(LoadReturns, LoadLimits))

ClearingTaskPending ==
  \E t \in BagToSet(tasks) : MsgType(t.type) \in ClearingTypes

\* a set flag has a command outstanding whose result clears it
LoadingHasClearingTask == app.loading /\ run = "running" => ClearingTaskPending

\* C37: whenever the loading flag is set while the program runs, a command is
\* outstanding whose result handler clears it, and under weak fairness of the
\* delivery of these results loading = TRUE leads to loading = FALSE (or
\* to the end of the program), whatever keys are pressed in between.
C37_LoadingLeadsToCleared ==
  /\ []LoadingHasClearingTask
  /\ (app.loading ~> (~app.loading \/ run # "running"))

\* a key set the flag, and the result that arrived cleared it
C37_Witness ==
  /\ last.msg.type \in ClearingTypes
  /\ ~app.loading
  /\ keys >= 2


\* ------------------------------------------------------------- connecting
ConnectingKeys ==
  {"q", "esc", "enter", "r", "l", "L", "d", "y", "?", "/", "f", "t",
   "1", "2", "3", "4", "5", "9", "space", "left"}

\* a connection to a remote host started, the views left by 9 and esc, and a
\* cluster connection started meanwhile
LeaveMaxKeys == 6
LeaveMaxPending == 3
LeaveKeys == {"9", "enter", "esc"}
LeaveReturns == Returns({"nil", "error"}, {{"p1"}}, {1})
LeaveLimits == Limits(LeaveMaxKeys, LeaveMaxPending, MaxLines)

NextLeave ==
  \/ KeyPress(LeaveKeys, {"p1"}, LeaveLimits)
  \/ Deliver(LeaveReturns, LeaveLimits)

SpecLeave == InitConfigs /\ [][NextLeave]_vars

\* a key handled while the connecting view is current
KeyWhileConnecting(k) == Update(World, KeyMsg(k), "p1")

ConnectingIgnoresKeys ==
  app.viewState = "ViewConnecting" /\ run = "running" =>
    /\ \A k \in ConnectingKeys : KeyWhileConnecting(k) = World
    /\ KeyWhileConnecting("ctrl+c").run = "quit"
    /\ KeyWhileConnecting("ctrl+c").a = app

LeftConnecting == app.viewState = "ViewConnecting" /\ app'.viewState # "ViewConnecting"

ByConnectResult ==
  /\ last'.msg.type = "connectResultMsg"
  /\ app'.viewState = IF last'.msg.err = "nil" THEN "ViewNamespaces" ELSE "ViewMain"

\* C38: while the connecting view is current every key except ctrl+c leaves
\* the whole state unchanged and returns no command, ctrl+c quits; the
\* connecting view is left only by the handling of a connect result, for the
\* namespaces view on success and for the main view on failure.
C38_ConnectingIgnoresKeys ==
  /\ []ConnectingIgnoresKeys
  /\ [][LeftConnecting => ByConnectResult]_vars

=============================================================================
